---------------------------- MODULE Spec2Model ----------------------------
(***************************************************************************)
(* Copper-rail workshop: the allocation engine (utils/optimizer), the      *)
(* work-order state machine (context/WorkOrderContext), the live stock     *)
(* pool (context/InventoryContext), the plan library (context/PlansContext *)
(* with the export and import of components/PlanManager) and the LED API   *)
(* of the remainder boxes (utils/ledApi).                                  *)
(*                                                                         *)
(* The specifications share the variables:                                 *)
(*   EngineSpec  one call of generateMaterialPlan, stepped through its     *)
(*               loop, on a plan and a stock pool drawn from bounded sets, *)
(*               and the work order createWorkOrder builds from it;        *)
(*   Spec        one work order and the live pool under the operations the *)
(*               contexts export (every operation addresses a work order   *)
(*               by its id and maps the others to themselves);             *)
(*   CollectionSpec  several work orders created from one live pool;       *)
(*   InventorySpec   the live pool under addRail, removeRail and cutRail;  *)
(*   WorkshopSpec    one work order executed while the live pool is        *)
(*               restocked, cleared and cut by hand;                       *)
(*   OperatorSpec    one work order driven through the execution view by   *)
(*               an operator who keeps going (weak fairness);              *)
(*   PlansSpec   the plan library: plans created, pieces added from the    *)
(*               form, plans exported to a JSON file and imported from it; *)
(*   LedSpec     the calls of the LED API and the requests they send;      *)
(*   ExecutionSpec   one work order under createWorkOrder, the confirm     *)
(*               operations, advancePhase and cancelWorkOrder;             *)
(*   ConfirmationSpec  the same without cancelWorkOrder;                   *)
(*   SharedPoolSpec  two work orders planned against one live pool and     *)
(*               executed through the execution view.                      *)
(*                                                                         *)
(* Not modelled: rendering, persistence, and the free-text fields of rails *)
(* and work orders.  Identities produced by generateId are modelled as     *)
(* <<"gen", n>> with n taken from a counter, so every one is fresh.        *)
(***************************************************************************)
EXTENDS Integers, Sequences, FiniteSets, TLC

VARIABLES
    plan,        \* engine: the FusionBoxPlan argument of generateMaterialPlan
    inventory,   \* engine: the CopperRail[] argument of generateMaterialPlan
    gmp,         \* engine: the locals of the running generateMaterialPlan call
    workOrders,  \* WorkOrderProvider state: WorkOrder[]
    rails,       \* InventoryProvider state: CopperRail[] (the live pool)
    cutResult,   \* what the last call of cutRail returned
    plans,       \* PlansProvider state: FusionBoxPlan[]
    planFile,    \* the JSON file the last export of a plan downloaded
    ledCall,     \* the last call of the LED API and the box it computed
    ledRequests, \* the requests setLedState has sent, in order
    nextId       \* number of identities generateId has handed out

vars == <<plan, inventory, gmp, workOrders, rails, cutResult,
          plans, planFile, ledCall, ledRequests, nextId>>

engineVars == <<plan, inventory, gmp>>
orderVars == <<workOrders, rails>>
plansVars == <<plans, planFile>>
ledVars == <<ledCall, ledRequests>>

-----------------------------------------------------------------------------
(* Bounds of the model *)

MaxPieces == 2
MaxQuantity == 2
MaxStock == 2
MaxExecutedCuts == 2
MaxWorkOrders == 2
MaxNewRails == 2

-----------------------------------------------------------------------------
(* types/index.ts *)

MIN_USABLE_LENGTH == 50

STANDARD_RAIL_LENGTHS == <<1000, 2000, 3000, 6000>>

\* Two of the COMMON_RAIL_TYPES
RailTypeA == [width |-> 10, thickness |-> 3, label |-> "10x3mm"]
RailTypeB == [width |-> 12, thickness |-> 5, label |-> "12x5mm"]
RailTypes == {RailTypeA, RailTypeB}

\* An optional field that is not set
Undefined == <<"undefined", 0>>

\* Dates.  The code stores Dates and never compares them, so a Date is
\* modelled by its age: taken at the present instant, or at an earlier one.
\* NoDate is a Date field that is not set (startedAt?, completedAt?, ...).
NoDate == "undefined"
Earlier == "earlier"
\* new Date()
Now == "now"

\* The null a function returns instead of a record
Null == [isNull |-> TRUE]

\* no file was downloaded yet; no call of the LED API was made yet
NoFile == [isFile |-> FALSE]
NoCall == [op |-> "none"]

\* generateId(): the n-th identity handed out
generateId(n) == <<"gen", n>>

-----------------------------------------------------------------------------
(* Array.prototype.sort with a consistent comparator; Before(a, b) stands  *)
(* for "compare(a, b) < 0".  The sort is stable (ECMAScript 2019).         *)

SortRank(s, i, Before(_, _)) ==
    1 + Cardinality({j \in 1..Len(s) :
                        \/ Before(s[j], s[i])
                        \/ (~Before(s[i], s[j]) /\ j < i)})

StableSort(s, Before(_, _)) ==
    LET elements == SubSeq(s, 1, Len(s))    \* the array as sort is called
        ranks == [i \in 1..Len(elements) |-> SortRank(elements, i, Before)]
        rank == SubSeq(ranks, 1, Len(elements))
        sorted == [k \in 1..Len(elements) |->
                     elements[CHOOSE i \in 1..Len(elements) : rank[i] = k]]
    IN  SubSeq(sorted, 1, Len(elements))

RECURSIVE SumSeq(_)
SumSeq(s) == IF s = <<>> THEN 0 ELSE Head(s) + SumSeq(Tail(s))

RemoveAt(s, i) == [k \in 1..(Len(s) - 1) |-> IF k < i THEN s[k] ELSE s[k + 1]]

\* Array.prototype.findIndex, 1-based; 0 when there is none (-1 in the source)
FindIndex(s, Test(_)) ==
    IF \E i \in 1..Len(s) : Test(s[i])
    THEN CHOOSE i \in 1..Len(s) : Test(s[i]) /\ \A j \in 1..(i - 1) : ~Test(s[j])
    ELSE 0

-----------------------------------------------------------------------------
(* utils/optimizer.ts *)

IsCompatible(rail, piece) ==
    /\ rail.width = piece.railType.width
    /\ rail.thickness = piece.railType.thickness
    /\ rail.length >= piece.length

\* mutant: the comparator forgets the priority of remainders
RailBeforeLengthOnly(a, b) == a.length - b.length < 0

\* the comparator of compatibleRails.sort
RailBefore(a, b) ==
    IF a.isRemainder # b.isRemainder
    THEN a.isRemainder
    ELSE a.length - b.length < 0

\* mutant: a negative leftover is clipped to no waste
WasteOfClipped(remainderLength) ==
    IF remainderLength > 0 /\ remainderLength < MIN_USABLE_LENGTH
    THEN remainderLength ELSE 0

\* lines 49 and 127: the leftover counted as waste
WasteOf(remainderLength) ==
    IF remainderLength < MIN_USABLE_LENGTH THEN remainderLength ELSE 0

\* mutant: the leftover is recorded as a remainder whatever its length
UsableRemainderOfAny(remainderLength) == remainderLength

\* lines 54 and 132: the leftover kept as a remainder
UsableRemainderOf(remainderLength) ==
    IF remainderLength >= MIN_USABLE_LENGTH THEN remainderLength ELSE 0

findBestRailForPiece(inv, piece) ==
    LET compatibleRails == SelectSeq(inv, LAMBDA rail : IsCompatible(rail, piece))
    IN  IF Len(compatibleRails) = 0
        THEN Null
        ELSE LET sortedRails == StableSort(compatibleRails, RailBefore)
                 bestRail == sortedRails[1]
                 remainderLength == bestRail.length - piece.length
                 waste == WasteOf(remainderLength)
             IN  [sourceRail |-> bestRail,
                  piece |-> piece,
                  remainderLength |-> UsableRemainderOf(remainderLength),
                  waste |-> waste,
                  isOptimal |-> bestRail.isRemainder
                                \/ remainderLength < MIN_USABLE_LENGTH]

\* mutant: the fallback takes the first standard length, not the last
findSmallestSufficientStandardRailFirst(requiredLength) ==
    LET fits == {k \in 1..Len(STANDARD_RAIL_LENGTHS) :
                    STANDARD_RAIL_LENGTHS[k] >= requiredLength}
    IN  IF fits # {}
        THEN STANDARD_RAIL_LENGTHS[CHOOSE k \in fits : \A m \in fits : k <= m]
        ELSE STANDARD_RAIL_LENGTHS[1]

\* mutant: a piece longer than every standard length gets a rail of its own
\* length
findSmallestSufficientStandardRailToMeasure(requiredLength) ==
    LET fits == {k \in 1..Len(STANDARD_RAIL_LENGTHS) :
                    STANDARD_RAIL_LENGTHS[k] >= requiredLength}
    IN  IF fits # {}
        THEN STANDARD_RAIL_LENGTHS[CHOOSE k \in fits : \A m \in fits : k <= m]
        ELSE requiredLength

findSmallestSufficientStandardRail(requiredLength) ==
    LET fits == {k \in 1..Len(STANDARD_RAIL_LENGTHS) :
                    STANDARD_RAIL_LENGTHS[k] >= requiredLength}
    IN  IF fits # {}
        THEN STANDARD_RAIL_LENGTHS[CHOOSE k \in fits : \A m \in fits : k <= m]
        ELSE STANDARD_RAIL_LENGTHS[Len(STANDARD_RAIL_LENGTHS)]

\* lines 74-79: one unit piece per required piece and unit of quantity, each
\* with a fresh id; ids are handed out from n + 1 on
RECURSIVE ExpandPieces(_, _)
ExpandPieces(requiredPieces, n) ==
    IF requiredPieces = <<>>
    THEN <<>>
    ELSE LET piece == Head(requiredPieces)
             units == [i \in 1..piece.quantity |->
                          [piece EXCEPT !.quantity = 1, !.id = generateId(n + i)]]
         IN  units \o ExpandPieces(Tail(requiredPieces), n + piece.quantity)

\* mutant: the pieces are sorted shortest first
PieceBeforeAscending(a, b) == a.length - b.length < 0

\* mutant: the order of the pieces follows their generated identities
PieceBeforeByIdentity(a, b) == a.id[2] % 3 < b.id[2] % 3

\* the comparator of expandedPieces.sort: b.length - a.length
PieceBefore(a, b) == b.length - a.length < 0

\* lines 68-83: the locals as the loop is entered
GmpEnter(p, inv, n) ==
    LET expanded == ExpandPieces(p.requiredPieces, n)
    IN  [pc |-> "loop",
         expandedPieces |-> StableSort(expanded, PieceBefore),
         i |-> 1,
         workingInventory |-> inv,
         suggestions |-> <<>>,
         totalWaste |-> 0,
         usedRemainders |-> 0,
         newRailsNeeded |-> 0,
         ids |-> n + Len(expanded)]

\* mutant: a rail whose leftover is not usable stays in the working pool
UpdateWorkingInventoryNoRemove(workingInventory, suggestion) ==
    LET railIndex == FindIndex(workingInventory,
                               LAMBDA r : r.id = suggestion.sourceRail.id)
    IN  IF railIndex # 0 /\ suggestion.remainderLength >= MIN_USABLE_LENGTH
        THEN [workingInventory EXCEPT
                 ![railIndex] = [@ EXCEPT
                     !.length = suggestion.remainderLength,
                     !.isRemainder = TRUE,
                     !.originalRailId = suggestion.sourceRail.id]]
        ELSE workingInventory

\* lines 89-107: the consumed rail becomes its remainder or leaves the pool
UpdateWorkingInventory(workingInventory, suggestion) ==
    LET railIndex == FindIndex(workingInventory,
                               LAMBDA r : r.id = suggestion.sourceRail.id)
    IN  IF railIndex # 0
        THEN IF suggestion.remainderLength >= MIN_USABLE_LENGTH
             THEN [workingInventory EXCEPT
                      ![railIndex] = [@ EXCEPT
                          !.length = suggestion.remainderLength,
                          !.isRemainder = TRUE,
                          !.originalRailId = suggestion.sourceRail.id]]
             ELSE RemoveAt(workingInventory, railIndex)
        ELSE workingInventory

\* mutant: every rail taken from the working pool counts as a used remainder
GmpFromStockCountsAll(st, suggestion) ==
    [st EXCEPT
            !.workingInventory = UpdateWorkingInventory(@, suggestion),
            !.usedRemainders = @ + 1,
            !.totalWaste = @ + suggestion.waste,
            !.suggestions = Append(@, suggestion),
            !.i = @ + 1]

\* lines 88-113: the loop body when findBestRailForPiece found a rail
GmpFromStock(st, suggestion) ==
    [st EXCEPT
            !.workingInventory = UpdateWorkingInventory(@, suggestion),
            !.usedRemainders = IF suggestion.sourceRail.isRemainder THEN @ + 1 ELSE @,
            !.totalWaste = @ + suggestion.waste,
            !.suggestions = Append(@, suggestion),
            !.i = @ + 1]

\* mutant: the leftover of a synthesized rail gets an identity of its own
GmpNewRailLeftoverRenamed(st, piece) ==
    LET standardLength == findSmallestSufficientStandardRail(piece.length)
        newRail == [id |-> generateId(st.ids + 1),
                    length |-> standardLength,
                    width |-> piece.railType.width,
                    thickness |-> piece.railType.thickness,
                    isRemainder |-> FALSE,
                    originalRailId |-> Undefined]
        remainderLength == standardLength - piece.length
        waste == WasteOf(remainderLength)
    IN  [st EXCEPT
            !.ids = @ + 2,
            !.suggestions = Append(@,
                [sourceRail |-> newRail,
                 piece |-> piece,
                 remainderLength |-> UsableRemainderOf(remainderLength),
                 waste |-> waste,
                 isOptimal |-> FALSE]),
            !.workingInventory =
                IF remainderLength >= MIN_USABLE_LENGTH
                THEN Append(@, [newRail EXCEPT
                                   !.id = generateId(st.ids + 2),
                                   !.length = remainderLength,
                                   !.isRemainder = TRUE,
                                   !.originalRailId = newRail.id])
                ELSE @,
            !.newRailsNeeded = @ + 1,
            !.totalWaste = @ + waste,
            !.i = @ + 1]

\* lines 114-149: the loop body when no rail of the working pool fits
GmpNewRail(st, piece) ==
    LET standardLength == findSmallestSufficientStandardRail(piece.length)
        newRail == [id |-> generateId(st.ids + 1),
                    length |-> standardLength,
                    width |-> piece.railType.width,
                    thickness |-> piece.railType.thickness,
                    isRemainder |-> FALSE,
                    originalRailId |-> Undefined]
        remainderLength == standardLength - piece.length
        waste == WasteOf(remainderLength)
    IN  [st EXCEPT
            !.ids = @ + 1,
            !.suggestions = Append(@,
                [sourceRail |-> newRail,
                 piece |-> piece,
                 remainderLength |-> UsableRemainderOf(remainderLength),
                 waste |-> waste,
                 isOptimal |-> FALSE]),
            !.workingInventory =
                IF remainderLength >= MIN_USABLE_LENGTH
                THEN Append(@, [newRail EXCEPT
                                   !.length = remainderLength,
                                   !.isRemainder = TRUE,
                                   !.originalRailId = newRail.id])
                ELSE @,
            !.newRailsNeeded = @ + 1,
            !.totalWaste = @ + waste,
            !.i = @ + 1]

\* lines 85-150: one iteration
GmpIterate(st) ==
    LET piece == st.expandedPieces[st.i]
        suggestion == findBestRailForPiece(st.workingInventory, piece)
    IN  IF suggestion # Null
        THEN GmpFromStock(st, suggestion)
        ELSE GmpNewRail(st, piece)

RECURSIVE GmpLoop(_)
GmpLoop(st) ==
    IF st.i > Len(st.expandedPieces) THEN st ELSE GmpLoop(GmpIterate(st))

\* lines 152-158
MaterialPlanOf(p, st) ==
    [plan |-> p,
     suggestions |-> st.suggestions,
     totalWaste |-> st.totalWaste,
     usedRemainders |-> st.usedRemainders,
     newRailsNeeded |-> st.newRailsNeeded]

\* the whole call; n identities were handed out before it
generateMaterialPlan(p, inv, n) == MaterialPlanOf(p, GmpLoop(GmpEnter(p, inv, n)))

\* the number of identities the call consumes
GmpIdsUsed(p, inv, n) == GmpLoop(GmpEnter(p, inv, n)).ids - n

\* the working inventory as the call returns
GmpWorkingInventory(p, inv, n) == GmpLoop(GmpEnter(p, inv, n)).workingInventory

\* mutant: the working inventory is the caller's array itself
CallerInventoryAliased(inv, workingInventory) == workingInventory

\* The caller's array once the call has written to its working inventory.
\* Line 83 builds the working inventory with inventory.map and an object
\* spread, a new array of new objects, and findBestRailForPiece sorts the
\* array its filter returned: no write reaches the caller's array.
CallerInventory(inv, workingInventory) == inv

-----------------------------------------------------------------------------
(* Inputs of the engine *)

PieceLengths == {300, 980, 1500, 6500}
StockLengths == {300, 1000}

\* pieces of type A in every length, pieces of type B in the shortest one;
\* a piece is required once or MaxQuantity times
PieceShapes ==
    [length : PieceLengths, quantity : {1, MaxQuantity}, railType : {RailTypeA}]
    \cup [length : {300}, quantity : {1, MaxQuantity}, railType : {RailTypeB}]

\* rails of type A in every length, new or remainder; one new rail of type B
RailShapes ==
    [length : StockLengths, isRemainder : BOOLEAN, railType : {RailTypeA}]
    \cup [length : {1000}, isRemainder : {FALSE}, railType : {RailTypeB}]

MakePiece(shape, k) ==
    [id |-> <<"piece", k>>,
     length |-> shape.length,
     quantity |-> shape.quantity,
     purpose |-> <<"purpose", k>>,
     railType |-> shape.railType]

MakeRail(shape, k) ==
    [id |-> <<"rail", k>>,
     length |-> shape.length,
     width |-> shape.railType.width,
     thickness |-> shape.railType.thickness,
     isRemainder |-> shape.isRemainder,
     originalRailId |-> IF shape.isRemainder THEN <<"rail", 0>> ELSE Undefined]

MakePlan(shapes) ==
    [id |-> <<"plan", 1>>,
     requiredPieces |-> [k \in 1..Len(shapes) |-> MakePiece(shapes[k], k)]]

Plans ==
    {MakePlan(shapes) :
        shapes \in UNION {[1..n -> PieceShapes] : n \in 0..MaxPieces}}

Stocks ==
    {[k \in 1..Len(shapes) |-> MakeRail(shapes[k], k)] :
        shapes \in UNION {[1..n -> RailShapes] : n \in 0..MaxStock}}

EmptyPlan == MakePlan(<<>>)

GmpIdle == [pc |-> "idle"]

-----------------------------------------------------------------------------
(* EngineSpec: one generateMaterialPlan call *)

EngineInit ==
    /\ plan \in Plans
    /\ inventory \in Stocks
    /\ gmp = GmpIdle
    /\ workOrders = <<>>
    /\ rails = <<>>
    /\ cutResult = Null
    /\ plans = <<>>
    /\ planFile = NoFile
    /\ ledCall = NoCall
    /\ ledRequests = <<>>
    /\ nextId = 0

\* the call is entered: lines 68-83
GmpCall ==
    /\ gmp.pc = "idle"
    /\ gmp' = GmpEnter(plan, inventory, nextId)
    /\ inventory' = CallerInventory(inventory, gmp'.workingInventory)
    /\ UNCHANGED <<plan, nextId, orderVars, cutResult, plansVars, ledVars>>

GmpCurrentSuggestion ==
    findBestRailForPiece(gmp.workingInventory, gmp.expandedPieces[gmp.i])

\* one iteration that finds a rail in the working pool: lines 86-113
GmpAllocateFromStock ==
    /\ gmp.pc = "loop"
    /\ gmp.i <= Len(gmp.expandedPieces)
    /\ LET suggestion == GmpCurrentSuggestion
       IN  /\ suggestion # Null
           /\ gmp' = GmpFromStock(gmp, suggestion)
    /\ inventory' = CallerInventory(inventory, gmp'.workingInventory)
    /\ UNCHANGED <<plan, nextId, orderVars, cutResult, plansVars, ledVars>>

\* one iteration that has to synthesize a rail: lines 114-149
GmpAllocateNewRail ==
    /\ gmp.pc = "loop"
    /\ gmp.i <= Len(gmp.expandedPieces)
    /\ GmpCurrentSuggestion = Null
    /\ gmp' = GmpNewRail(gmp, gmp.expandedPieces[gmp.i])
    /\ inventory' = CallerInventory(inventory, gmp'.workingInventory)
    /\ UNCHANGED <<plan, nextId, orderVars, cutResult, plansVars, ledVars>>

\* the call returns: lines 152-158
GmpReturn ==
    /\ gmp.pc = "loop"
    /\ gmp.i > Len(gmp.expandedPieces)
    /\ gmp' = [gmp EXCEPT !.pc = "done"]
    /\ nextId' = gmp.ids
    /\ UNCHANGED <<plan, inventory, orderVars, cutResult, plansVars, ledVars>>

-----------------------------------------------------------------------------
(* context/WorkOrderContext.tsx: the steps derived from a material plan *)

\* a.label.localeCompare(b.label) < 0, for the labels of RailTypes
LabelRank(label) == IF label = RailTypeA.label THEN 1 ELSE 2
LabelBefore(a, b) == LabelRank(a) < LabelRank(b)

\* String.prototype.includes on an identity: generateId yields hexadecimal
\* digits and dashes only, so no identity includes 'inventory' or 'new-'
IdIncludes(id, text) == FALSE

\* mutant: the gathering steps are sorted by label only
GatheringBeforeByLabel(a, b) == LabelBefore(a.railType.label, b.railType.label)

\* the comparator of the gathering-step sort
GatheringBefore(a, b) ==
    IF a.isRemainder # b.isRemainder
    THEN ~a.isRemainder
    ELSE LabelBefore(a.railType.label, b.railType.label)

\* the suggestions that open a new key of railMap, in insertion order
FirstOfEachRail(suggestions) ==
    LET firsts == {k \in 1..Len(suggestions) :
                      \A j \in 1..(k - 1) :
                          suggestions[j].sourceRail.id # suggestions[k].sourceRail.id}
        Nth(n) == CHOOSE k \in firsts : Cardinality({j \in firsts : j < k}) = n - 1
    IN  [n \in 1..Cardinality(firsts) |-> suggestions[Nth(n)]]

generateGatheringSteps(materialPlan, n) ==
    LET firsts == FirstOfEachRail(materialPlan.suggestions)
        steps == [k \in 1..Len(firsts) |->
                     [id |-> generateId(n + k),
                      railType |-> firsts[k].piece.railType,
                      sourceRailId |-> firsts[k].sourceRail.id,
                      length |-> firsts[k].sourceRail.length,
                      isRemainder |-> firsts[k].sourceRail.isRemainder,
                      isFromNewStock |->
                          /\ ~firsts[k].sourceRail.isRemainder
                          /\ ~IdIncludes(firsts[k].sourceRail.id, "inventory"),
                      confirmed |-> FALSE,
                      confirmedAt |-> NoDate]]
    IN  StableSort(steps, GatheringBefore)

\* mutant: the waste of a cut is not carried over to its step
generateCuttingStepsNoWaste(materialPlan, n) ==
    [index \in 1..Len(materialPlan.suggestions) |->
        LET suggestion == materialPlan.suggestions[index]
        IN  [id |-> generateId(n + index),
             suggestionIndex |-> index - 1,
             sourceRailId |-> suggestion.sourceRail.id,
             pieceId |-> suggestion.piece.id,
             railType |-> suggestion.piece.railType,
             sourceLength |-> suggestion.sourceRail.length,
             cutLength |-> suggestion.piece.length,
             remainderLength |-> suggestion.remainderLength,
             wasteLength |-> 0,
             purpose |-> suggestion.piece.purpose,
             confirmed |-> FALSE,
             confirmedAt |-> NoDate]]

generateCuttingSteps(materialPlan, n) ==
    [index \in 1..Len(materialPlan.suggestions) |->
        LET suggestion == materialPlan.suggestions[index]
        IN  [id |-> generateId(n + index),
             suggestionIndex |-> index - 1,
             sourceRailId |-> suggestion.sourceRail.id,
             pieceId |-> suggestion.piece.id,
             railType |-> suggestion.piece.railType,
             sourceLength |-> suggestion.sourceRail.length,
             cutLength |-> suggestion.piece.length,
             remainderLength |-> suggestion.remainderLength,
             wasteLength |-> suggestion.waste,
             purpose |-> suggestion.piece.purpose,
             confirmed |-> FALSE,
             confirmedAt |-> NoDate]]

\* mutant: the work order is created as already started
WorkOrderOfPlanStarted(p, materialPlanSnapshot, n1) ==
    LET gatheringSteps == generateGatheringSteps(materialPlanSnapshot, n1)
        n2 == n1 + Len(gatheringSteps)
        cuttingSteps == generateCuttingSteps(materialPlanSnapshot, n2)
        n3 == n2 + Len(cuttingSteps)
    IN  [id |-> generateId(n3 + 1),
         planId |-> p.id,
         status |-> "in-progress",
         phase |-> "gathering",
         createdAt |-> Now,
         startedAt |-> Now,
         completedAt |-> NoDate,
         gatheringSteps |-> gatheringSteps,
         cuttingSteps |-> cuttingSteps,
         returnConfirmation |-> [confirmed |-> FALSE, confirmedAt |-> NoDate],
         executedCuts |-> <<>>,
         materialPlanSnapshot |-> materialPlanSnapshot]

\* lines 132-149: the work order createWorkOrder builds around the material
\* plan generateMaterialPlan returned, n1 identities handed out before
WorkOrderOfPlan(p, materialPlanSnapshot, n1) ==
    LET gatheringSteps == generateGatheringSteps(materialPlanSnapshot, n1)
        n2 == n1 + Len(gatheringSteps)
        cuttingSteps == generateCuttingSteps(materialPlanSnapshot, n2)
        n3 == n2 + Len(cuttingSteps)
    IN  [id |-> generateId(n3 + 1),
         planId |-> p.id,
         status |-> "draft",
         phase |-> "gathering",
         createdAt |-> Now,
         startedAt |-> NoDate,
         completedAt |-> NoDate,
         gatheringSteps |-> gatheringSteps,
         cuttingSteps |-> cuttingSteps,
         returnConfirmation |-> [confirmed |-> FALSE, confirmedAt |-> NoDate],
         executedCuts |-> <<>>,
         materialPlanSnapshot |-> materialPlanSnapshot]

\* the work order createWorkOrder builds, n identities handed out before
NewWorkOrder(p, pool, n) ==
    WorkOrderOfPlan(p, generateMaterialPlan(p, pool, n), n + GmpIdsUsed(p, pool, n))

\* the number of identities createWorkOrder consumes
NewWorkOrderIds(p, pool, n) ==
    LET materialPlanSnapshot == generateMaterialPlan(p, pool, n)
        n1 == n + GmpIdsUsed(p, pool, n)
    IN  n1 + Len(generateGatheringSteps(materialPlanSnapshot, n1))
           + Len(materialPlanSnapshot.suggestions) + 1 - n

-----------------------------------------------------------------------------
(* EngineSpec, continued: the call is the one createWorkOrder makes *)

\* createWorkOrder(plan, rails), from the return of generateMaterialPlan on:
\* lines 132-151
createWorkOrderOfPlan ==
    /\ gmp.pc = "done"
    /\ workOrders = <<>>
    /\ workOrders' = Append(workOrders,
                            WorkOrderOfPlan(plan, MaterialPlanOf(plan, gmp), nextId))
    /\ nextId' = workOrders'[Len(workOrders')].id[2]
    /\ inventory' = CallerInventory(inventory, gmp.workingInventory)
    /\ UNCHANGED <<plan, gmp, rails, cutResult, plansVars, ledVars>>

EngineNext ==
    \/ GmpCall
    \/ GmpAllocateFromStock
    \/ GmpAllocateNewRail
    \/ GmpReturn
    \/ createWorkOrderOfPlan

EngineSpec == EngineInit /\ [][EngineNext]_vars

-----------------------------------------------------------------------------
(* context/WorkOrderContext.tsx: what each operation does to the work      *)
(* order it addresses                                                      *)

\* mutant: only a completion stamps completedAt
WithStatusNoStamp(wo, status) ==
    [wo EXCEPT
        !.status = status,
        !.startedAt = IF status = "in-progress" /\ wo.startedAt = NoDate THEN Now ELSE @,
        !.completedAt = IF status = "completed" THEN Now ELSE @]

\* updateWorkOrderStatus
WithStatus(wo, status) ==
    [wo EXCEPT
        !.status = status,
        !.startedAt = IF status = "in-progress" /\ wo.startedAt = NoDate THEN Now ELSE @,
        !.completedAt = IF status \in {"completed", "cancelled"} THEN Now ELSE @]

\* completeWorkOrder
Completed(wo) ==
    [wo EXCEPT !.status = "completed", !.phase = "completed", !.completedAt = Now]

\* mutant: every confirmation stamps startedAt again
WithGatheringStepRestarted(wo, stepId) ==
    [wo EXCEPT
        !.status = IF wo.status = "draft" THEN "in-progress" ELSE @,
        !.startedAt = Now,
        !.gatheringSteps =
            [k \in 1..Len(wo.gatheringSteps) |->
                IF wo.gatheringSteps[k].id = stepId
                THEN [wo.gatheringSteps[k] EXCEPT !.confirmed = TRUE, !.confirmedAt = Now]
                ELSE wo.gatheringSteps[k]]]

\* confirmGatheringStep
WithGatheringStep(wo, stepId) ==
    [wo EXCEPT
        !.status = IF wo.status = "draft" THEN "in-progress" ELSE @,
        !.startedAt = IF wo.startedAt # NoDate THEN @ ELSE Now,
        !.gatheringSteps =
            [k \in 1..Len(wo.gatheringSteps) |->
                IF wo.gatheringSteps[k].id = stepId
                THEN [wo.gatheringSteps[k] EXCEPT !.confirmed = TRUE, !.confirmedAt = Now]
                ELSE wo.gatheringSteps[k]]]

\* mutant: the executed cut is put in front of the log
WithCuttingStepInFront(wo, stepId, cutId) ==
    LET updatedCuttingSteps ==
            [k \in 1..Len(wo.cuttingSteps) |->
                IF wo.cuttingSteps[k].id = stepId
                THEN [wo.cuttingSteps[k] EXCEPT !.confirmed = TRUE, !.confirmedAt = Now]
                ELSE wo.cuttingSteps[k]]
        found == FindIndex(wo.cuttingSteps, LAMBDA st : st.id = stepId)
    IN  [wo EXCEPT
            !.cuttingSteps = updatedCuttingSteps,
            !.executedCuts =
                IF found # 0
                THEN <<[id |-> cutId,
                        suggestionIndex |-> wo.cuttingSteps[found].suggestionIndex,
                        pieceId |-> wo.cuttingSteps[found].pieceId,
                        sourceRailId |-> wo.cuttingSteps[found].sourceRailId,
                        cutLength |-> wo.cuttingSteps[found].cutLength,
                        executedAt |-> Now]>> \o @
                ELSE @]

\* mutant: the confirmed step is rewritten to what is left of its rail
WithCuttingStepTracked(wo, stepId, cutId) ==
    LET updatedCuttingSteps ==
            [k \in 1..Len(wo.cuttingSteps) |->
                IF wo.cuttingSteps[k].id = stepId
                THEN [wo.cuttingSteps[k] EXCEPT
                         !.confirmed = TRUE,
                         !.confirmedAt = Now,
                         !.sourceLength = @ - wo.cuttingSteps[k].cutLength]
                ELSE wo.cuttingSteps[k]]
        found == FindIndex(wo.cuttingSteps, LAMBDA st : st.id = stepId)
    IN  [wo EXCEPT
            !.cuttingSteps = updatedCuttingSteps,
            !.executedCuts =
                IF found # 0
                THEN Append(@, [id |-> cutId,
                                suggestionIndex |-> wo.cuttingSteps[found].suggestionIndex,
                                pieceId |-> wo.cuttingSteps[found].pieceId,
                                sourceRailId |-> wo.cuttingSteps[found].sourceRailId,
                                cutLength |-> wo.cuttingSteps[found].cutLength,
                                executedAt |-> Now])
                ELSE @]

\* confirmCuttingStep; the executed cut gets the identity cutId
WithCuttingStep(wo, stepId, cutId) ==
    LET updatedCuttingSteps ==
            [k \in 1..Len(wo.cuttingSteps) |->
                IF wo.cuttingSteps[k].id = stepId
                THEN [wo.cuttingSteps[k] EXCEPT !.confirmed = TRUE, !.confirmedAt = Now]
                ELSE wo.cuttingSteps[k]]
        found == FindIndex(wo.cuttingSteps, LAMBDA st : st.id = stepId)
    IN  [wo EXCEPT
            !.cuttingSteps = updatedCuttingSteps,
            !.executedCuts =
                IF found # 0
                THEN Append(@, [id |-> cutId,
                                suggestionIndex |-> wo.cuttingSteps[found].suggestionIndex,
                                pieceId |-> wo.cuttingSteps[found].pieceId,
                                sourceRailId |-> wo.cuttingSteps[found].sourceRailId,
                                cutLength |-> wo.cuttingSteps[found].cutLength,
                                executedAt |-> Now])
                ELSE @]

\* mutant: the return is confirmed in the 'returning' phase only
WithReturnInPhase(wo) ==
    IF wo.phase = "returning"
    THEN [wo EXCEPT !.returnConfirmation = [confirmed |-> TRUE, confirmedAt |-> Now]]
    ELSE wo

\* confirmReturn
WithReturn(wo) ==
    [wo EXCEPT !.returnConfirmation = [confirmed |-> TRUE, confirmedAt |-> Now]]

\* mutant: every phase but the last may be left at any time
canAdvancePhaseUnguarded(wo) == wo.phase \in {"gathering", "cutting", "returning"}

\* mutant: one confirmed gathering step is enough to leave 'gathering'
canAdvancePhaseSome(wo) ==
    CASE wo.phase = "gathering" ->
            \E k \in 1..Len(wo.gatheringSteps) : wo.gatheringSteps[k].confirmed
      [] wo.phase = "cutting" ->
            \A k \in 1..Len(wo.cuttingSteps) : wo.cuttingSteps[k].confirmed
      [] wo.phase = "returning" -> wo.returnConfirmation.confirmed
      [] OTHER -> FALSE

canAdvancePhase(wo) ==
    CASE wo.phase = "gathering" ->
            \A k \in 1..Len(wo.gatheringSteps) : wo.gatheringSteps[k].confirmed
      [] wo.phase = "cutting" ->
            \A k \in 1..Len(wo.cuttingSteps) : wo.cuttingSteps[k].confirmed
      [] wo.phase = "returning" -> wo.returnConfirmation.confirmed
      [] OTHER -> FALSE

phaseOrder == <<"gathering", "cutting", "returning", "completed">>

\* mutant: the last transition moves the phase and leaves the status
AdvancedPhaseOnly(wo) ==
    IF ~canAdvancePhase(wo)
    THEN wo
    ELSE LET currentIndex == FindIndex(phaseOrder, LAMBDA ph : ph = wo.phase)
         IN  IF currentIndex + 1 > Len(phaseOrder)
             THEN wo
             ELSE [wo EXCEPT !.phase = phaseOrder[currentIndex + 1]]

\* advancePhase
Advanced(wo) ==
    IF ~canAdvancePhase(wo)
    THEN wo
    ELSE LET currentIndex == FindIndex(phaseOrder, LAMBDA ph : ph = wo.phase)
         IN  IF currentIndex + 1 > Len(phaseOrder)
             THEN wo
             ELSE LET nextPhase == phaseOrder[currentIndex + 1]
                  IN  IF nextPhase = "completed"
                      THEN [wo EXCEPT !.phase = nextPhase,
                                      !.status = "completed",
                                      !.completedAt = Now]
                      ELSE [wo EXCEPT !.phase = nextPhase]

\* prev.map((wo) => wo.id !== id ? wo : Change(wo))
MapWorkOrder(id, Change(_)) ==
    [k \in 1..Len(workOrders) |->
        IF workOrders[k].id # id THEN workOrders[k] ELSE Change(workOrders[k])]

-----------------------------------------------------------------------------
(* context/InventoryContext.tsx *)

IdsOfPool(pool) == {pool[k].id : k \in 1..Len(pool)}

\* removeRail
WithoutRail(pool, id) == SelectSeq(pool, LAMBDA r : r.id # id)

\* addRail; the rail gets the identity railId
WithRail(pool, rail, railId) == Append(pool, [rail EXCEPT !.id = railId])

\* cutRail: the remainder it builds when it builds one, else Null; the
\* remainder gets the identity remainderId
CutRemainder(pool, railId, cutLength, remainderId) ==
    LET found == FindIndex(pool, LAMBDA r : r.id = railId)
    IN  IF found = 0
        THEN Null
        ELSE IF pool[found].length < cutLength
             THEN Null
             ELSE LET rail == pool[found]
                      remainderLength == rail.length - cutLength
                  IN  IF remainderLength > 0
                      THEN [id |-> remainderId,
                            length |-> remainderLength,
                            width |-> rail.width,
                            thickness |-> rail.thickness,
                            isRemainder |-> TRUE,
                            originalRailId |-> rail.id]
                      ELSE Null

\* mutant: a leftover below MIN_USABLE_LENGTH is not kept
PoolAfterCutUsable(pool, railId, cutLength, remainderId) ==
    LET found == FindIndex(pool, LAMBDA r : r.id = railId)
        remainder == CutRemainder(pool, railId, cutLength, remainderId)
    IN  IF found = 0
        THEN pool
        ELSE IF pool[found].length < cutLength
             THEN pool
             ELSE IF remainder # Null /\ remainder.length >= MIN_USABLE_LENGTH
                  THEN Append(SelectSeq(pool, LAMBDA r : r.id # railId), remainder)
                  ELSE WithoutRail(pool, railId)

\* cutRail: the pool after the call
PoolAfterCut(pool, railId, cutLength, remainderId) ==
    LET found == FindIndex(pool, LAMBDA r : r.id = railId)
        remainder == CutRemainder(pool, railId, cutLength, remainderId)
    IN  IF found = 0
        THEN pool
        ELSE IF pool[found].length < cutLength
             THEN pool
             ELSE IF remainder # Null
                  THEN Append(SelectSeq(pool, LAMBDA r : r.id # railId), remainder)
                  ELSE WithoutRail(pool, railId)

-----------------------------------------------------------------------------
(* components/WorkOrderExecution.tsx, grouped cutting *)

\* the threshold of handleConfirmRailGroup
GroupMinUsable == 100

\* railGroups: the cutting steps grouped by source rail, in order of first use
railGroups(wo) ==
    LET steps == wo.cuttingSteps
        firsts == {k \in 1..Len(steps) :
                      \A j \in 1..(k - 1) : steps[j].sourceRailId # steps[k].sourceRailId}
        Nth(n) == CHOOSE k \in firsts : Cardinality({j \in firsts : j < k}) = n - 1
    IN  [n \in 1..Cardinality(firsts) |->
            LET step == steps[Nth(n)]
                cuts == SelectSeq(steps, LAMBDA c : c.sourceRailId = step.sourceRailId)
                g == FindIndex(wo.gatheringSteps,
                               LAMBDA gs : gs.sourceRailId = step.sourceRailId)
            IN  [sourceRailId |-> step.sourceRailId,
                 railType |-> step.railType,
                 sourceLength |-> step.sourceLength,
                 cuts |-> cuts,
                 allConfirmed |-> \A k \in 1..Len(cuts) : cuts[k].confirmed,
                 isRemainder |-> IF g # 0 THEN wo.gatheringSteps[g].isRemainder
                                 ELSE FALSE]]

\* lines 350-359: the live rail the group is taken to be, as an index; 0 if none
RailInInventory(pool, group) ==
    LET byId == FindIndex(pool, LAMBDA r : r.id = group.sourceRailId)
    IN  IF byId # 0
        THEN byId
        ELSE FindIndex(pool, LAMBDA r :
                 /\ r.width = group.railType.width
                 /\ r.thickness = group.railType.thickness
                 /\ r.length >= group.sourceLength)

GroupCutLength(group) == SumSeq([k \in 1..Len(group.cuts) |-> group.cuts[k].cutLength])

\* mutant: the leftover is kept from MIN_USABLE_LENGTH on, as in the engine
PoolAfterRailGroupMinUsable(pool, group, railId) ==
    LET remainderLength == group.sourceLength - GroupCutLength(group)
        found == RailInInventory(pool, group)
    IN  IF found = 0
        THEN pool
        ELSE IF remainderLength >= MIN_USABLE_LENGTH
             THEN WithRail(WithoutRail(pool, pool[found].id),
                           [id |-> Undefined,
                            length |-> remainderLength,
                            width |-> group.railType.width,
                            thickness |-> group.railType.thickness,
                            isRemainder |-> TRUE,
                            originalRailId |-> pool[found].id],
                           railId)
             ELSE WithoutRail(pool, pool[found].id)

\* lines 361-376: the live pool after the group is confirmed
PoolAfterRailGroup(pool, group, railId) ==
    LET remainderLength == group.sourceLength - GroupCutLength(group)
        found == RailInInventory(pool, group)
    IN  IF found = 0
        THEN pool
        ELSE IF remainderLength >= GroupMinUsable
             THEN WithRail(WithoutRail(pool, pool[found].id),
                           [id |-> Undefined,
                            length |-> remainderLength,
                            width |-> group.railType.width,
                            thickness |-> group.railType.thickness,
                            isRemainder |-> TRUE,
                            originalRailId |-> pool[found].id],
                           railId)
             ELSE WithoutRail(pool, pool[found].id)

\* whether lines 361-376 call addRail
RailGroupAddsRail(pool, group) ==
    /\ RailInInventory(pool, group) # 0
    /\ group.sourceLength - GroupCutLength(group) >= GroupMinUsable

\* lines 378-383: confirmCuttingStep for every cut of the group that the
\* rendered work order shows unconfirmed; identities from n + 1 on
RECURSIVE WithGroupCuts(_, _, _)
WithGroupCuts(wo, cuts, n) ==
    IF cuts = <<>>
    THEN wo
    ELSE IF Head(cuts).confirmed
         THEN WithGroupCuts(wo, Tail(cuts), n)
         ELSE WithGroupCuts(WithCuttingStep(wo, Head(cuts).id, generateId(n + 1)),
                            Tail(cuts), n + 1)

UnconfirmedCuts(group) ==
    Cardinality({k \in 1..Len(group.cuts) : ~group.cuts[k].confirmed})

-----------------------------------------------------------------------------
(* Spec: the work orders and the live pool *)

RailA1000 == MakeRail([length |-> 1000, isRemainder |-> FALSE, railType |-> RailTypeA], 1)
RailA300 == MakeRail([length |-> 300, isRemainder |-> TRUE, railType |-> RailTypeA], 2)

InitialPools == {<<RailA1000>>, <<RailA1000, RailA300>>}

\* the plans of the plan list
PlanCatalog ==
    {EmptyPlan,
     MakePlan(<<[length |-> 300, quantity |-> 2, railType |-> RailTypeA]>>),
     MakePlan(<<[length |-> 930, quantity |-> 1, railType |-> RailTypeA]>>),
     MakePlan(<<[length |-> 980, quantity |-> 1, railType |-> RailTypeA],
                [length |-> 300, quantity |-> 1, railType |-> RailTypeB]>>)}

Statuses == {"draft", "in-progress", "completed", "cancelled"}

MissingId == <<"gen", 0>>

WorkOrderIds == {workOrders[k].id : k \in 1..Len(workOrders)}

WorkOrderOf(id) == workOrders[CHOOSE k \in 1..Len(workOrders) : workOrders[k].id = id]

GatheringStepIds(wo) == {wo.gatheringSteps[k].id : k \in 1..Len(wo.gatheringSteps)}
CuttingStepIds(wo) == {wo.cuttingSteps[k].id : k \in 1..Len(wo.cuttingSteps)}

Init ==
    /\ plan = EmptyPlan
    /\ inventory = <<>>
    /\ gmp = GmpIdle
    /\ workOrders = <<>>
    /\ rails \in InitialPools
    /\ cutResult = Null
    /\ plans = <<>>
    /\ planFile = NoFile
    /\ ledCall = NoCall
    /\ ledRequests = <<>>
    /\ nextId = 0

\* a Date as an instant goes by
Aged(date) == IF date = Now THEN Earlier ELSE date

AgedWorkOrder(wo) ==
    [wo EXCEPT
        !.createdAt = Aged(@),
        !.startedAt = Aged(@),
        !.completedAt = Aged(@),
        !.gatheringSteps =
            [k \in 1..Len(@) |-> [@[k] EXCEPT !.confirmedAt = Aged(@)]],
        !.cuttingSteps =
            [k \in 1..Len(@) |-> [@[k] EXCEPT !.confirmedAt = Aged(@)]],
        !.returnConfirmation = [@ EXCEPT !.confirmedAt = Aged(@)],
        !.executedCuts =
            [k \in 1..Len(@) |-> [@[k] EXCEPT !.executedAt = Aged(@)]]]

\* time passes: what was stamped at the present instant is now of an earlier one
Tick ==
    /\ workOrders' = [k \in 1..Len(workOrders) |-> AgedWorkOrder(workOrders[k])]
    /\ UNCHANGED <<rails, nextId, engineVars, cutResult, plansVars, ledVars>>

\* WorkOrderList.handleCreateWorkOrder -> createWorkOrder(p, rails)
createWorkOrderOf(p) ==
    /\ workOrders = <<>>
    /\ workOrders' = Append(workOrders, NewWorkOrder(p, rails, nextId))
    /\ nextId' = nextId + NewWorkOrderIds(p, rails, nextId)
    /\ rails' = CallerInventory(rails, GmpWorkingInventory(p, rails, nextId))
    /\ UNCHANGED <<engineVars, cutResult, plansVars, ledVars>>

createWorkOrder == \E p \in PlanCatalog : createWorkOrderOf(p)

updateWorkOrderStatus ==
    /\ \E id \in WorkOrderIds, status \in Statuses :
          workOrders' = MapWorkOrder(id, LAMBDA wo : WithStatus(wo, status))
    /\ UNCHANGED <<rails, nextId, engineVars, cutResult, plansVars, ledVars>>

startWorkOrder ==
    /\ \E id \in WorkOrderIds :
          workOrders' = MapWorkOrder(id, LAMBDA wo : WithStatus(wo, "in-progress"))
    /\ UNCHANGED <<rails, nextId, engineVars, cutResult, plansVars, ledVars>>

completeWorkOrder ==
    /\ \E id \in WorkOrderIds :
          workOrders' = MapWorkOrder(id, LAMBDA wo : Completed(wo))
    /\ UNCHANGED <<rails, nextId, engineVars, cutResult, plansVars, ledVars>>

cancelWorkOrder ==
    /\ \E id \in WorkOrderIds :
          workOrders' = MapWorkOrder(id, LAMBDA wo : WithStatus(wo, "cancelled"))
    /\ UNCHANGED <<rails, nextId, engineVars, cutResult, plansVars, ledVars>>

\* confirmGatheringStep(workOrderId, stepId)
confirmGatheringStepOf(workOrderId, stepId) ==
    /\ workOrders' =
          MapWorkOrder(workOrderId, LAMBDA wo : WithGatheringStep(wo, stepId))
    /\ UNCHANGED <<rails, nextId, engineVars, cutResult, plansVars, ledVars>>

confirmGatheringStep ==
    \E id \in WorkOrderIds :
        \E stepId \in GatheringStepIds(WorkOrderOf(id)) \cup {MissingId} :
            confirmGatheringStepOf(id, stepId)

\* confirmCuttingStep(workOrderId, stepId)
confirmCuttingStepOf(workOrderId, stepId) ==
    /\ Len(WorkOrderOf(workOrderId).executedCuts) < MaxExecutedCuts
    /\ workOrders' =
          MapWorkOrder(workOrderId, LAMBDA wo :
              WithCuttingStep(wo, stepId, generateId(nextId + 1)))
    /\ nextId' = IF stepId = MissingId THEN nextId ELSE nextId + 1
    /\ UNCHANGED <<rails, engineVars, cutResult, plansVars, ledVars>>

confirmCuttingStep ==
    \E id \in WorkOrderIds :
        \E stepId \in CuttingStepIds(WorkOrderOf(id)) \cup {MissingId} :
            confirmCuttingStepOf(id, stepId)

confirmReturn ==
    /\ \E id \in WorkOrderIds :
          workOrders' = MapWorkOrder(id, LAMBDA wo : WithReturn(wo))
    /\ UNCHANGED <<rails, nextId, engineVars, cutResult, plansVars, ledVars>>

advancePhase ==
    /\ \E id \in WorkOrderIds :
          workOrders' = MapWorkOrder(id, LAMBDA wo : Advanced(wo))
    /\ UNCHANGED <<rails, nextId, engineVars, cutResult, plansVars, ledVars>>

\* the view offers the first rail group that is not fully confirmed, in the
\* cutting phase
handleConfirmRailGroup ==
    /\ \E id \in WorkOrderIds :
          LET wo == WorkOrderOf(id)
              groups == railGroups(wo)
              open == {g \in 1..Len(groups) : ~groups[g].allConfirmed}
          IN  /\ wo.phase = "cutting"
              /\ open # {}
              /\ LET group == groups[CHOOSE g \in open : \A h \in open : g <= h]
                     added == IF RailGroupAddsRail(rails, group) THEN 1 ELSE 0
                 IN  /\ Len(wo.executedCuts) + UnconfirmedCuts(group) <= MaxExecutedCuts
                     /\ rails' = PoolAfterRailGroup(rails, group, generateId(nextId + 1))
                     /\ workOrders' =
                           MapWorkOrder(id, LAMBDA w :
                               WithGroupCuts(w, group.cuts, nextId + added))
                     /\ nextId' = nextId + added + UnconfirmedCuts(group)
    /\ UNCHANGED <<engineVars, cutResult, plansVars, ledVars>>

Next ==
    \/ Tick
    \/ createWorkOrder
    \/ updateWorkOrderStatus
    \/ startWorkOrder
    \/ completeWorkOrder
    \/ cancelWorkOrder
    \/ confirmGatheringStep
    \/ confirmCuttingStep
    \/ confirmReturn
    \/ advancePhase
    \/ handleConfirmRailGroup

Spec == Init /\ [][Next]_vars

-----------------------------------------------------------------------------
(* CollectionSpec: several work orders created from the same live pool *)

\* createWorkOrder while the collection holds work orders already
createNextWorkOrder ==
    /\ Len(workOrders) < MaxWorkOrders
    /\ \E p \in PlanCatalog :
          /\ workOrders' = Append(workOrders, NewWorkOrder(p, rails, nextId))
          /\ nextId' = nextId + NewWorkOrderIds(p, rails, nextId)
          /\ rails' = CallerInventory(rails, GmpWorkingInventory(p, rails, nextId))
    /\ UNCHANGED <<engineVars, cutResult, plansVars, ledVars>>

CollectionNext ==
    \/ createNextWorkOrder
    \/ confirmGatheringStep
    \/ cancelWorkOrder

CollectionSpec == Init /\ [][CollectionNext]_vars

-----------------------------------------------------------------------------
(* InventorySpec: the live pool under the operations of InventoryContext *)

\* the cut lengths tried: negative, zero, short, leaving 10 of a rail of
\* 1000, a whole rail of 1000, longer than any rail
CutLengths == {-100, 0, 300, 990, 1000, 1200}

\* the rails added by hand: a short one and one from new stock
AddedRails ==
    {[id |-> Undefined, length |-> 300, width |-> RailTypeA.width,
      thickness |-> RailTypeA.thickness, isRemainder |-> FALSE,
      originalRailId |-> Undefined],
     [id |-> Undefined, length |-> 2000, width |-> RailTypeB.width,
      thickness |-> RailTypeB.thickness, isRemainder |-> FALSE,
      originalRailId |-> Undefined]}

\* the identities handed out since the last work order was created
IdsSinceCreation ==
    IF workOrders = <<>>
    THEN nextId
    ELSE nextId - workOrders[Len(workOrders)].id[2]

addRail ==
    /\ IdsSinceCreation < MaxNewRails
    /\ \E rail \in AddedRails :
          rails' = WithRail(rails, rail, generateId(nextId + 1))
    /\ nextId' = nextId + 1
    /\ UNCHANGED <<workOrders, cutResult, engineVars, plansVars, ledVars>>

removeRail ==
    /\ \E id \in IdsOfPool(rails) \cup {MissingId} :
          rails' = WithoutRail(rails, id)
    /\ UNCHANGED <<workOrders, cutResult, nextId, engineVars, plansVars, ledVars>>

\* cutRail(railId, cutLength)
cutRailOf(railId, cutLength) ==
    /\ IdsSinceCreation < MaxNewRails
    /\ rails' = PoolAfterCut(rails, railId, cutLength, generateId(nextId + 1))
    /\ cutResult' = CutRemainder(rails, railId, cutLength, generateId(nextId + 1))
    /\ nextId' = IF cutResult' # Null THEN nextId + 1 ELSE nextId
    /\ UNCHANGED <<workOrders, engineVars, plansVars, ledVars>>

cutRail ==
    \E railId \in IdsOfPool(rails) \cup {MissingId} :
        \E cutLength \in CutLengths : cutRailOf(railId, cutLength)

InventoryNext ==
    \/ addRail
    \/ removeRail
    \/ cutRail

InventorySpec == Init /\ [][InventoryNext]_vars

-----------------------------------------------------------------------------
(* WorkshopSpec: one work order while the live pool is edited by hand *)

\* the plan of the workshop's work order: one piece from stock, one of a type
\* the pool does not hold
WorkshopPlans ==
    {MakePlan(<<[length |-> 980, quantity |-> 1, railType |-> RailTypeA],
                [length |-> 300, quantity |-> 1, railType |-> RailTypeB]>>)}

createWorkshopOrder == \E p \in WorkshopPlans : createWorkOrderOf(p)

\* the pool is edited while the work order is being executed
restock == workOrders # <<>> /\ addRail

discardRail == workOrders # <<>> /\ removeRail

cutByHand ==
    /\ workOrders # <<>>
    /\ \E railId \in IdsOfPool(rails) : cutRailOf(railId, 300)

WorkshopNext ==
    \/ createWorkshopOrder
    \/ confirmGatheringStep
    \/ confirmCuttingStep
    \/ confirmReturn
    \/ advancePhase
    \/ cancelWorkOrder
    \/ completeWorkOrder
    \/ handleConfirmRailGroup
    \/ restock
    \/ discardRail
    \/ cutByHand

WorkshopSpec == Init /\ [][WorkshopNext]_vars

-----------------------------------------------------------------------------
(* Vocabulary of the properties of the engine, stated on its inputs and    *)
(* outputs only                                                            *)

GmpRunning == gmp.pc \in {"loop", "done"}
GmpAtPiece == gmp.pc = "loop" /\ gmp.i <= Len(gmp.expandedPieces)

SameType(rail, piece) ==
    rail.width = piece.railType.width /\ rail.thickness = piece.railType.thickness

Fits(rail, piece) == SameType(rail, piece) /\ rail.length >= piece.length

FittingIn(pool, piece) == {k \in 1..Len(pool) : Fits(pool[k], piece)}

\* a precedes b in the order: remainders first, then shorter first
Precedes(a, b) ==
    \/ a.isRemainder /\ ~b.isRemainder
    \/ a.isRemainder = b.isRemainder /\ a.length < b.length

Leftover(s) == s.sourceRail.length - s.piece.length

IdsOf(pool) == {pool[k].id : k \in 1..Len(pool)}

\* the suggestion sits on a rail the engine synthesized
OnNewRail(s) == s.sourceRail.id \notin IdsOf(inventory) /\ ~s.sourceRail.isRemainder

\* the indices of the suggestions cut from the rail with this id
CutsOf(id) == {k \in 1..Len(gmp.suggestions) : gmp.suggestions[k].sourceRail.id = id}

CutLengthOf(id) ==
    LET cuts == SelectSeq(gmp.suggestions, LAMBDA s : s.sourceRail.id = id)
    IN  SumSeq([k \in 1..Len(cuts) |-> cuts[k].piece.length])

TotalQuantity(p) ==
    SumSeq([k \in 1..Len(p.requiredPieces) |-> p.requiredPieces[k].quantity])

StandardLengths == {1000, 2000, 3000, 6000}

-----------------------------------------------------------------------------
(* C5: within one generateMaterialPlan call a rail that was cut is seen by *)
(* later pieces only as its usable leftover (a remainder of that length),  *)
(* or not at all when the leftover is below 50; so the pieces cut from a   *)
(* rail of the caller's pool never add up to more than its length, and a   *)
(* piece that no rail of the working pool fits increments newRailsNeeded.  *)

C5_State ==
    GmpRunning =>
        /\ \A r \in 1..Len(inventory) :
              CutLengthOf(inventory[r].id) <= inventory[r].length
        /\ \A k \in 1..Len(gmp.suggestions) :
              LET id == gmp.suggestions[k].sourceRail.id
                  later == {m \in CutsOf(id) : m > k}
                  entries == {m \in 1..Len(gmp.workingInventory) :
                                 gmp.workingInventory[m].id = id}
              IN  IF later # {}
                  THEN LET n == CHOOSE m \in later : \A o \in later : m <= o
                       IN  /\ Leftover(gmp.suggestions[k]) >= 50
                           /\ gmp.suggestions[n].sourceRail.isRemainder
                           /\ gmp.suggestions[n].sourceRail.length
                                 = Leftover(gmp.suggestions[k])
                  ELSE IF Leftover(gmp.suggestions[k]) >= 50
                       THEN /\ Cardinality(entries) = 1
                            /\ \A m \in entries :
                                  /\ gmp.workingInventory[m].isRemainder
                                  /\ gmp.workingInventory[m].length
                                        = Leftover(gmp.suggestions[k])
                       ELSE entries = {}

C5_Step ==
    (/\ GmpAtPiece
     /\ FittingIn(gmp.workingInventory, gmp.expandedPieces[gmp.i]) = {}
     /\ gmp' # gmp)
        => gmp'.newRailsNeeded = gmp.newRailsNeeded + 1

C5_WorkingCopyFeedback == []C5_State /\ [][C5_Step]_vars

\* a stock rail was cut twice and a later piece, which the uncut rail would
\* have held, had to go on a new rail
C5_Witness ==
    /\ gmp.pc = "done"
    /\ \E r \in 1..Len(inventory) : \E n \in 1..Len(gmp.suggestions) :
          /\ Cardinality(CutsOf(inventory[r].id)) >= 2
          /\ \A m \in CutsOf(inventory[r].id) : m < n
          /\ OnNewRail(gmp.suggestions[n])
          /\ Fits(inventory[r], gmp.suggestions[n].piece)
    /\ gmp.newRailsNeeded >= 1

-----------------------------------------------------------------------------
(* C6: findBestRailForPiece returns null iff no rail has the piece's width *)
(* and thickness and length >= piece.length; otherwise its sourceRail is a *)
(* fitting rail of the pool that no fitting rail precedes in the order     *)
(* (remainders first, then ascending length).                              *)

C6_BestRailIsMinimal ==
    /\ GmpAtPiece =>
          LET pool == gmp.workingInventory
              piece == gmp.expandedPieces[gmp.i]
              s == findBestRailForPiece(pool, piece)
          IN  /\ (s = Null) <=> (FittingIn(pool, piece) = {})
              /\ s # Null =>
                    /\ s.piece = piece
                    /\ \E k \in FittingIn(pool, piece) :
                          /\ pool[k] = s.sourceRail
                          /\ \A m \in FittingIn(pool, piece) :
                                ~Precedes(pool[m], pool[k])
    /\ (GmpRunning /\ Len(gmp.suggestions) >= 1) =>
          LET piece == gmp.expandedPieces[1]
              s == gmp.suggestions[1]
          IN  IF FittingIn(inventory, piece) = {}
              THEN s.sourceRail.id \notin IdsOf(inventory)
              ELSE \E k \in FittingIn(inventory, piece) :
                      /\ inventory[k] = s.sourceRail
                      /\ \A m \in FittingIn(inventory, piece) :
                            ~Precedes(inventory[m], inventory[k])

\* a longer remainder rail was chosen over an exact-length new rail
C6_Witness ==
    /\ GmpRunning
    /\ Len(gmp.suggestions) >= 1
    /\ gmp.suggestions[1].sourceRail.isRemainder
    /\ Leftover(gmp.suggestions[1]) > 0
    /\ \E k \in 1..Len(inventory) :
          /\ ~inventory[k].isRemainder
          /\ SameType(inventory[k], gmp.suggestions[1].piece)
          /\ inventory[k].length = gmp.suggestions[1].piece.length

-----------------------------------------------------------------------------
(* C7: for every suggestion, on a stock rail or on a synthesized one, with *)
(* leftover = sourceRail.length - piece.length: leftover >= 50 gives       *)
(* remainderLength = leftover and waste = 0, otherwise remainderLength = 0 *)
(* and waste = leftover; the two are never both nonzero and                *)
(* remainderLength + waste + piece.length = sourceRail.length.             *)

C7_RemainderOrWaste ==
    GmpRunning =>
        \A k \in 1..Len(gmp.suggestions) :
            LET s == gmp.suggestions[k]
            IN  /\ Leftover(s) >= 50 => s.remainderLength = Leftover(s) /\ s.waste = 0
                /\ Leftover(s) < 50 => s.remainderLength = 0 /\ s.waste = Leftover(s)
                /\ ~(s.remainderLength # 0 /\ s.waste # 0)
                /\ s.remainderLength + s.waste + s.piece.length = s.sourceRail.length

\* a plan with waste on a new rail and a remainder on a stock rail
C7_Witness ==
    /\ gmp.pc = "done"
    /\ \E k, m \in 1..Len(gmp.suggestions) :
          /\ OnNewRail(gmp.suggestions[k])
          /\ gmp.suggestions[k].waste # 0
          /\ gmp.suggestions[m].sourceRail.id \in IdsOf(inventory)
          /\ gmp.suggestions[m].remainderLength # 0

-----------------------------------------------------------------------------
(* C8: for every suggestion of a returned material plan, isOptimal is true *)
(* exactly when the source rail is a remainder rail or the leftover is     *)
(* below MIN_USABLE_LENGTH, for stock rails and new rails alike.           *)

C8_IsOptimalIffRemainderOrNearExact ==
    gmp.pc = "done" =>
        \A k \in 1..Len(gmp.suggestions) :
            LET s == gmp.suggestions[k]
            IN  s.isOptimal <=> (s.sourceRail.isRemainder \/ Leftover(s) < 50)

-----------------------------------------------------------------------------
(* C9: generateMaterialPlan returns exactly one suggestion per unit piece  *)
(* (as many as the quantities of the plan's pieces add up to), whatever    *)
(* the stock, and lists them by non-increasing piece length.               *)

C9_OneSuggestionPerUnitPiece ==
    gmp.pc = "done" =>
        /\ Len(gmp.suggestions) = TotalQuantity(plan)
        /\ \A k \in 1..Len(gmp.suggestions) :
              /\ gmp.suggestions[k].piece.quantity = 1
              /\ \E q \in 1..Len(plan.requiredPieces) :
                    /\ plan.requiredPieces[q].length = gmp.suggestions[k].piece.length
                    /\ plan.requiredPieces[q].railType = gmp.suggestions[k].piece.railType
                    /\ plan.requiredPieces[q].purpose = gmp.suggestions[k].piece.purpose
        /\ \A q \in 1..Len(plan.requiredPieces) :
              Cardinality({k \in 1..Len(gmp.suggestions) :
                              gmp.suggestions[k].piece.purpose
                                  = plan.requiredPieces[q].purpose})
                  = plan.requiredPieces[q].quantity
        /\ \A k \in 1..(Len(gmp.suggestions) - 1) :
              gmp.suggestions[k].piece.length >= gmp.suggestions[k + 1].piece.length

\* the plan lists a shorter piece before a longer one, in quantity, and the
\* stock does not suffice
C9_Witness ==
    /\ gmp.pc = "done"
    /\ Len(plan.requiredPieces) = 2
    /\ plan.requiredPieces[1].length < plan.requiredPieces[2].length
    /\ plan.requiredPieces[1].quantity = 2
    /\ Len(gmp.suggestions) = 3
    /\ gmp.newRailsNeeded >= 1

-----------------------------------------------------------------------------
(* C10: when no rail of the working pool fits a unit piece, the engine     *)
(* synthesizes a non-remainder rail of the piece's cross-section whose     *)
(* length is the smallest of 1000/2000/3000/6000 that is >= piece.length,  *)
(* and 6000 when none is; a leftover >= 50 enters the working pool as a    *)
(* remainder, a smaller one does not.                                      *)

C10_Step ==
    (/\ GmpAtPiece
     /\ FittingIn(gmp.workingInventory, gmp.expandedPieces[gmp.i]) = {}
     /\ gmp' # gmp)
        => LET piece == gmp.expandedPieces[gmp.i]
               s == gmp'.suggestions[Len(gmp'.suggestions)]
               sufficient == {L \in StandardLengths : L >= piece.length}
           IN  /\ gmp'.suggestions = Append(gmp.suggestions, s)
               /\ s.piece = piece
               /\ ~s.sourceRail.isRemainder
               /\ SameType(s.sourceRail, piece)
               /\ s.sourceRail.id \notin IdsOf(gmp.workingInventory)
               /\ IF sufficient # {}
                  THEN /\ s.sourceRail.length \in sufficient
                       /\ \A L \in sufficient : s.sourceRail.length <= L
                  ELSE s.sourceRail.length = 6000
               /\ IF Leftover(s) >= 50
                  THEN gmp'.workingInventory =
                          Append(gmp.workingInventory,
                                 [s.sourceRail EXCEPT
                                     !.length = Leftover(s),
                                     !.isRemainder = TRUE,
                                     !.originalRailId = s.sourceRail.id])
                  ELSE gmp'.workingInventory = gmp.workingInventory

C10_NewRailIsSmallestStandard == [][C10_Step]_vars

\* a piece of 1500 went on a new rail of 2000 and a later piece was cut from
\* the 500 left of it
C10_Witness ==
    /\ gmp.pc = "done"
    /\ \E k, m \in 1..Len(gmp.suggestions) :
          /\ k < m
          /\ OnNewRail(gmp.suggestions[k])
          /\ gmp.suggestions[k].piece.length = 1500
          /\ gmp.suggestions[k].sourceRail.length = 2000
          /\ gmp.suggestions[k].remainderLength = 500
          /\ gmp.suggestions[m].sourceRail.id = gmp.suggestions[k].sourceRail.id
          /\ gmp.suggestions[m].sourceRail.isRemainder
          /\ gmp.suggestions[m].sourceRail.length = 500

-----------------------------------------------------------------------------
(* C11: the counters of the material plan: newRailsNeeded counts the unit  *)
(* pieces for which the working pool held no rail of their type and of     *)
(* sufficient length at their turn (so it is 0 when the stock suffices),   *)
(* usedRemainders counts the suggestions whose source rail is flagged      *)
(* isRemainder, and totalWaste is the sum of waste over the suggestions.   *)

C11_State ==
    GmpRunning =>
        /\ gmp.usedRemainders =
              Cardinality({k \in 1..Len(gmp.suggestions) :
                              gmp.suggestions[k].sourceRail.isRemainder})
        /\ gmp.totalWaste =
              SumSeq([k \in 1..Len(gmp.suggestions) |-> gmp.suggestions[k].waste])
        /\ gmp.suggestions = <<>> => gmp.newRailsNeeded = 0
        /\ gmp.newRailsNeeded <= Len(gmp.suggestions)

C11_Step ==
    (GmpAtPiece /\ gmp' # gmp)
        => gmp'.newRailsNeeded =
              IF FittingIn(gmp.workingInventory, gmp.expandedPieces[gmp.i]) = {}
              THEN gmp.newRailsNeeded + 1
              ELSE gmp.newRailsNeeded

C11_CountersOfThePlan == []C11_State /\ [][C11_Step]_vars

\* a plan that used a remainder, a new rail of the stock and a synthesized
\* rail, with waste
C11_Witness ==
    /\ gmp.pc = "done"
    /\ gmp.usedRemainders >= 1
    /\ gmp.usedRemainders < Len(gmp.suggestions) - gmp.newRailsNeeded
    /\ gmp.newRailsNeeded >= 1
    /\ gmp.totalWaste # 0

-----------------------------------------------------------------------------
(* C12: generateMaterialPlan and findBestRailForPiece never modify the     *)
(* caller's stock pool: through a preview and through createWorkOrder the  *)
(* caller's list keeps the same rails in the same order, each with its     *)
(* length, isRemainder and originalRailId.                                 *)

-----------------------------------------------------------------------------
(* C13: createWorkOrder derives exactly one gathering step per distinct    *)
(* sourceRail.id among the suggestions of the snapshot, also for a rail    *)
(* that yields several cuts, and lists the steps of non-remainder rails    *)
(* before those of remainder rails and, within each group, by rail-type    *)
(* label.                                                                  *)

C13_OneGatheringStepPerRail ==
    \A w \in 1..Len(workOrders) :
        LET steps == workOrders[w].gatheringSteps
            suggestions == workOrders[w].materialPlanSnapshot.suggestions
        IN  /\ {steps[k].sourceRailId : k \in 1..Len(steps)}
                  = {suggestions[k].sourceRail.id : k \in 1..Len(suggestions)}
            /\ \A j, k \in 1..Len(steps) :
                  j # k => steps[j].sourceRailId # steps[k].sourceRailId
            /\ \A j, k \in 1..Len(steps) :
                  j < k =>
                      /\ ~(steps[j].isRemainder /\ ~steps[k].isRemainder)
                      /\ steps[j].isRemainder = steps[k].isRemainder
                            => ~(/\ steps[j].railType.label = "12x5mm"
                                 /\ steps[k].railType.label = "10x3mm")

\* three suggestions on two new rails of the stock, the 12x5mm rail used
\* first: two gathering steps, the 10x3mm rail listed first
C13_Witness ==
    /\ gmp.pc = "done"
    /\ \E w \in 1..Len(workOrders) :
          LET steps == workOrders[w].gatheringSteps
              suggestions == workOrders[w].materialPlanSnapshot.suggestions
          IN  /\ Len(suggestions) = 3
              /\ Len(steps) = 2
              /\ suggestions[1].sourceRail.id = steps[2].sourceRailId
              /\ steps[1].railType.label = "10x3mm"
              /\ steps[2].railType.label = "12x5mm"
              /\ ~steps[1].isRemainder /\ ~steps[2].isRemainder

-----------------------------------------------------------------------------
(* C14: createWorkOrder derives exactly one cutting step per suggestion,   *)
(* in the order of the suggestions; step i carries suggestionIndex = i     *)
(* (counted from 0, as the array index) and the sourceRailId,              *)
(* sourceLength, cutLength = piece.length, remainderLength,                *)
(* wasteLength = waste and purpose of suggestion i, so that                *)
(* sourceLength = cutLength + remainderLength + wasteLength.               *)

C14_OneCuttingStepPerSuggestion ==
    \A w \in 1..Len(workOrders) :
        LET steps == workOrders[w].cuttingSteps
            suggestions == workOrders[w].materialPlanSnapshot.suggestions
        IN  /\ Len(steps) = Len(suggestions)
            /\ \A k \in 1..Len(steps) :
                  /\ steps[k].suggestionIndex = k - 1
                  /\ steps[k].sourceRailId = suggestions[k].sourceRail.id
                  /\ steps[k].sourceLength = suggestions[k].sourceRail.length
                  /\ steps[k].cutLength = suggestions[k].piece.length
                  /\ steps[k].remainderLength = suggestions[k].remainderLength
                  /\ steps[k].wasteLength = suggestions[k].waste
                  /\ steps[k].purpose = suggestions[k].piece.purpose
                  /\ steps[k].pieceId = suggestions[k].piece.id
                  /\ steps[k].sourceLength
                        = steps[k].cutLength + steps[k].remainderLength
                          + steps[k].wasteLength

\* a work order whose cutting steps include two cuts of one rail, the second
\* from what the first left, and a cut with waste
C14_Witness ==
    /\ gmp.pc = "done"
    /\ \E w \in 1..Len(workOrders) :
          LET steps == workOrders[w].cuttingSteps
          IN  /\ Len(steps) >= 3
              /\ \E j, k \in 1..Len(steps) :
                    /\ j < k
                    /\ steps[j].sourceRailId = steps[k].sourceRailId
                    /\ steps[k].sourceLength = steps[j].remainderLength
              /\ \E k \in 1..Len(steps) : steps[k].wasteLength # 0

-----------------------------------------------------------------------------
(* Vocabulary of the properties of the work orders *)

\* the work order with this id before and after the step
Pre(id) == WorkOrderOf(id)
Post(id) == workOrders'[CHOOSE k \in 1..Len(workOrders') : workOrders'[k].id = id]

Survives(id) == \E k \in 1..Len(workOrders') : workOrders'[k].id = id

\* the step changes no work order but the one with this id
OnlyChanges(id) ==
    /\ Len(workOrders') = Len(workOrders)
    /\ \A k \in 1..Len(workOrders) :
          /\ workOrders'[k].id = workOrders[k].id
          /\ workOrders[k].id # id => workOrders'[k] = workOrders[k]

\* a step of the work order's current phase is not confirmed
SomeStepUnconfirmed(wo) ==
    \/ wo.phase = "gathering"
       /\ \E k \in 1..Len(wo.gatheringSteps) : ~wo.gatheringSteps[k].confirmed
    \/ wo.phase = "cutting"
       /\ \E k \in 1..Len(wo.cuttingSteps) : ~wo.cuttingSteps[k].confirmed
    \/ wo.phase = "returning" /\ ~wo.returnConfirmation.confirmed

NextPhaseOf(phase) ==
    CASE phase = "gathering" -> "cutting"
      [] phase = "cutting" -> "returning"
      [] phase = "returning" -> "completed"
      [] OTHER -> "none"

Terminal(wo) == wo.status \in {"cancelled", "completed"}

-----------------------------------------------------------------------------
(* C15: the work order createWorkOrder returns has status = draft,         *)
(* phase = gathering, returnConfirmation.confirmed = false, every          *)
(* gathering and cutting step unconfirmed, no executed cut and neither     *)
(* startedAt nor completedAt; it is appended to the collection, whose      *)
(* work orders stay as they were, and the live pool is not changed.        *)

C15_Fresh(wo) ==
    /\ wo.status = "draft"
    /\ wo.phase = "gathering"
    /\ ~wo.returnConfirmation.confirmed
    /\ \A k \in 1..Len(wo.gatheringSteps) : ~wo.gatheringSteps[k].confirmed
    /\ \A k \in 1..Len(wo.cuttingSteps) : ~wo.cuttingSteps[k].confirmed
    /\ wo.executedCuts = <<>>
    /\ wo.startedAt = NoDate
    /\ wo.completedAt = NoDate

C15_NewWorkOrderIsFresh ==
    [][createNextWorkOrder =>
          /\ Len(workOrders') = Len(workOrders) + 1
          /\ \A k \in 1..Len(workOrders) : workOrders'[k] = workOrders[k]
          /\ C15_Fresh(workOrders'[Len(workOrders')])
          /\ workOrders'[Len(workOrders')].id \notin WorkOrderIds
          /\ rails' = rails]_vars

\* a second work order, with steps, was created while the first one was in
\* progress with a confirmed gathering step
C15_Witness ==
    /\ Len(workOrders) = 2
    /\ workOrders[1].status = "in-progress"
    /\ \E k \in 1..Len(workOrders[1].gatheringSteps) :
          workOrders[1].gatheringSteps[k].confirmed
    /\ C15_Fresh(workOrders[2])
    /\ Len(workOrders[2].gatheringSteps) >= 1
    /\ Len(workOrders[2].cuttingSteps) >= 2

-----------------------------------------------------------------------------
(* C16: confirmGatheringStep on a gathering step of the work order sets    *)
(* that step's confirmed = true and its confirmedAt and leaves every other *)
(* step as it was; a draft work order becomes in-progress, any other       *)
(* status stays; startedAt is set only if it was not set already.          *)

C16_Effect(wo, after, stepId) ==
    /\ Len(after.gatheringSteps) = Len(wo.gatheringSteps)
    /\ \A k \in 1..Len(wo.gatheringSteps) :
          IF wo.gatheringSteps[k].id = stepId
          THEN after.gatheringSteps[k] =
                  [wo.gatheringSteps[k] EXCEPT !.confirmed = TRUE,
                                               !.confirmedAt = Now]
          ELSE after.gatheringSteps[k] = wo.gatheringSteps[k]
    /\ after.status = IF wo.status = "draft" THEN "in-progress" ELSE wo.status
    /\ after.startedAt = IF wo.startedAt = NoDate THEN Now ELSE wo.startedAt
    /\ after = [wo EXCEPT !.gatheringSteps = after.gatheringSteps,
                          !.status = after.status,
                          !.startedAt = after.startedAt]

C16_ConfirmGatheringStep ==
    [][\A id \in WorkOrderIds :
          \A stepId \in GatheringStepIds(Pre(id)) :
              confirmGatheringStepOf(id, stepId) =>
                  /\ OnlyChanges(id)
                  /\ C16_Effect(Pre(id), Post(id), stepId)
                  /\ rails' = rails]_vars

\* the second gathering step of a work order is confirmed at a later instant
\* than the first: startedAt is still that of the first confirmation
C16_Witness ==
    \E w \in 1..Len(workOrders) :
        /\ workOrders[w].status = "in-progress"
        /\ workOrders[w].startedAt = Earlier
        /\ \E j, k \in 1..Len(workOrders[w].gatheringSteps) :
              /\ workOrders[w].gatheringSteps[j].confirmed
              /\ workOrders[w].gatheringSteps[j].confirmedAt = Earlier
              /\ workOrders[w].gatheringSteps[k].confirmed
              /\ workOrders[w].gatheringSteps[k].confirmedAt = Now

-----------------------------------------------------------------------------
(* C17: executedCuts is an append-only log: through every operation its    *)
(* earlier content stays a prefix of its later content; and each           *)
(* confirmCuttingStep of a cutting step of the work order marks the step   *)
(* confirmed and appends exactly one entry, which carries the step's       *)
(* suggestionIndex, pieceId, sourceRailId and cutLength.                   *)

\* the same log entry, seen now or at a later instant
C17_SameEntry(before, after) ==
    \/ after = before
    \/ before.executedAt = Now /\ after = [before EXCEPT !.executedAt = Earlier]

C17_Prefix(before, after) ==
    /\ Len(before) <= Len(after)
    /\ \A k \in 1..Len(before) : C17_SameEntry(before[k], after[k])

C17_Appended(wo, after, stepId) ==
    LET log == after.executedCuts
        entry == log[Len(log)]
    IN  /\ Len(log) = Len(wo.executedCuts) + 1
        /\ \A k \in 1..Len(wo.executedCuts) : log[k] = wo.executedCuts[k]
        /\ \A k \in 1..Len(wo.cuttingSteps) :
              wo.cuttingSteps[k].id = stepId =>
                  /\ after.cuttingSteps[k].confirmed
                  /\ entry.suggestionIndex = wo.cuttingSteps[k].suggestionIndex
                  /\ entry.pieceId = wo.cuttingSteps[k].pieceId
                  /\ entry.sourceRailId = wo.cuttingSteps[k].sourceRailId
                  /\ entry.cutLength = wo.cuttingSteps[k].cutLength

C17_ExecutedCutsAppendOnly ==
    [][/\ \A id \in WorkOrderIds :
             Survives(id) =>
                 C17_Prefix(Pre(id).executedCuts, Post(id).executedCuts)
       /\ \A id \in WorkOrderIds :
             \A stepId \in CuttingStepIds(Pre(id)) :
                 confirmCuttingStepOf(id, stepId) =>
                     C17_Appended(Pre(id), Post(id), stepId)]_vars

\* two cutting steps were confirmed one by one, at different instants: the
\* log lists them in the order of their confirmation
C17_Witness ==
    \E w \in 1..Len(workOrders) :
        LET log == workOrders[w].executedCuts
        IN  /\ Len(log) = 2
            /\ log[1].executedAt = Earlier
            /\ log[2].executedAt = Now
            /\ log[1].suggestionIndex = 1
            /\ log[2].suggestionIndex = 0
            /\ \A k \in 1..Len(workOrders[w].cuttingSteps) :
                  workOrders[w].cuttingSteps[k].confirmed

-----------------------------------------------------------------------------
(* C18: confirming a rail group whose source rail is in the live pool      *)
(* removes that rail from the pool and inserts a remainder rail of length  *)
(* sourceLength - sum of the group's cutLength (isRemainder = true,        *)
(* originalRailId = the removed rail) if and only if that length is        *)
(* >= 100; every cutting step of the group is marked confirmed and the     *)
(* steps of the other groups stay as they were; when no live rail is       *)
(* found the steps are confirmed all the same and the pool is unchanged.   *)

\* the first cutting step of the first rail that has an unconfirmed cut
C18_First(wo) ==
    LET steps == wo.cuttingSteps
        open == {k \in 1..Len(steps) :
                    \E j \in 1..Len(steps) :
                        /\ steps[j].sourceRailId = steps[k].sourceRailId
                        /\ ~steps[j].confirmed}
    IN  CHOOSE k \in open : \A m \in open : k <= m

C18_Effect(wo, after, pool, poolAfter) ==
    LET steps == wo.cuttingSteps
        first == steps[C18_First(wo)]
        rid == first.sourceRailId
        cuts == SelectSeq(steps, LAMBDA c : c.sourceRailId = rid)
        left == first.sourceLength - SumSeq([k \in 1..Len(cuts) |-> cuts[k].cutLength])
        kept == SelectSeq(pool, LAMBDA r : r.id # rid)
        lookalike == \E k \in 1..Len(pool) :
                        /\ pool[k].width = first.railType.width
                        /\ pool[k].thickness = first.railType.thickness
                        /\ pool[k].length >= first.sourceLength
    IN  /\ Len(after.cuttingSteps) = Len(steps)
        /\ \A k \in 1..Len(steps) :
              IF steps[k].sourceRailId = rid
              THEN /\ after.cuttingSteps[k].confirmed
                   /\ after.cuttingSteps[k].id = steps[k].id
              ELSE after.cuttingSteps[k] = steps[k]
        /\ IF rid \in IdsOf(pool)
           THEN IF left >= 100
                THEN /\ Len(poolAfter) = Len(kept) + 1
                     /\ SubSeq(poolAfter, 1, Len(kept)) = kept
                     /\ LET r == poolAfter[Len(poolAfter)]
                        IN  /\ r.length = left
                            /\ r.isRemainder
                            /\ r.originalRailId = rid
                            /\ r.width = first.railType.width
                            /\ r.thickness = first.railType.thickness
                            /\ r.id \notin IdsOf(pool)
                ELSE poolAfter = kept
           ELSE ~lookalike => poolAfter = pool

C18_RailGroupConfirmation ==
    [][handleConfirmRailGroup =>
          \E id \in WorkOrderIds :
              /\ OnlyChanges(id)
              /\ C18_Effect(Pre(id), Post(id), rails, rails')]_vars

\* the two cuts of 300 from the rail of 1000 were confirmed as one group:
\* the rail has left the pool and a remainder of 400 has entered it
C18_Witness ==
    /\ RailA1000.id \notin IdsOf(rails)
    /\ \E k \in 1..Len(rails) :
          /\ rails[k].originalRailId = RailA1000.id
          /\ rails[k].isRemainder
          /\ rails[k].length = 400
    /\ \E w \in 1..Len(workOrders) :
          /\ Len(workOrders[w].cuttingSteps) = 2
          /\ \A k \in 1..Len(workOrders[w].cuttingSteps) :
                /\ workOrders[w].cuttingSteps[k].confirmed
                /\ workOrders[w].cuttingSteps[k].sourceRailId = RailA1000.id

-----------------------------------------------------------------------------
(* C19: cutRail(railId, cutLength) on a rail of the live pool with         *)
(* cutLength < rail.length replaces the rail by one new remainder rail of  *)
(* length rail.length - cutLength (same width and thickness,               *)
(* isRemainder = true, originalRailId = rail.id, fresh id) and returns it, *)
(* however small the leftover; with cutLength = rail.length it removes the *)
(* rail and returns null; the other rails of the pool are unchanged.       *)

C19_Effect(pool, poolAfter, result, railId, cutLength) ==
    LET rail == pool[CHOOSE k \in 1..Len(pool) : pool[k].id = railId]
        others == SelectSeq(pool, LAMBDA r : r.id # railId)
    IN  /\ cutLength < rail.length =>
              /\ poolAfter = Append(others, result)
              /\ result.length = rail.length - cutLength
              /\ result.width = rail.width
              /\ result.thickness = rail.thickness
              /\ result.isRemainder
              /\ result.originalRailId = rail.id
              /\ result.id \notin IdsOf(pool)
        /\ cutLength = rail.length =>
              /\ poolAfter = others
              /\ result = [isNull |-> TRUE]

C19_CutRailKeepsLeftover ==
    [][\A railId \in IdsOf(rails) :
          \A cutLength \in CutLengths :
              cutRailOf(railId, cutLength) =>
                  C19_Effect(rails, rails', cutResult', railId, cutLength)]_vars

\* 990 were cut from the rail of 1000: the 10 left are in the pool as a
\* remainder of that rail, and were returned
C19_Witness ==
    /\ RailA1000.id \notin IdsOf(rails)
    /\ \E k \in 1..Len(rails) :
          /\ rails[k].length = 10
          /\ rails[k].isRemainder
          /\ rails[k].originalRailId = RailA1000.id
          /\ cutResult = rails[k]

-----------------------------------------------------------------------------
(* C20: an invalid cut - cutRail with cutLength > rail.length, with        *)
(* cutLength <= 0, or with a railId that is not in the live pool - is      *)
(* rejected: the live pool after the call is the pool before it.           *)

C20_InvalidCut(pool, railId, cutLength) ==
    \/ railId \notin IdsOf(pool)
    \/ cutLength <= 0
    \/ \E k \in 1..Len(pool) : pool[k].id = railId /\ cutLength > pool[k].length

C20_InvalidCutRejected ==
    [][\A railId \in IdsOf(rails) \cup {MissingId} :
          \A cutLength \in CutLengths :
              (cutRailOf(railId, cutLength) /\ C20_InvalidCut(rails, railId, cutLength))
                  => rails' = rails]_vars

-----------------------------------------------------------------------------
(* C1: advancePhase changes nothing (phase and status in particular) when  *)
(* a step of the current phase is unconfirmed; when all are confirmed it   *)
(* moves the phase to the next one and, leaving 'returning', also sets     *)
(* status = completed and completedAt.                                     *)

C1_Effect(wo, after) ==
    IF SomeStepUnconfirmed(wo) \/ wo.phase = "completed"
    THEN after = wo
    ELSE /\ after.phase = NextPhaseOf(wo.phase)
         /\ IF wo.phase = "returning"
            THEN after = [wo EXCEPT !.phase = "completed",
                                    !.status = "completed",
                                    !.completedAt = Now]
            ELSE after = [wo EXCEPT !.phase = NextPhaseOf(wo.phase)]

C1_AdvancePhaseGuarded ==
    [][advancePhase =>
          \E id \in WorkOrderIds :
              /\ OnlyChanges(id)
              /\ C1_Effect(Pre(id), Post(id))
              /\ rails' = rails]_vars

\* a work order with two gathering and two cutting steps, all confirmed, was
\* advanced twice and waits in 'returning' for the return to be confirmed
C1_Witness ==
    \E k \in 1..Len(workOrders) :
        /\ workOrders[k].phase = "returning"
        /\ workOrders[k].status = "in-progress"
        /\ workOrders[k].completedAt = NoDate
        /\ ~workOrders[k].returnConfirmation.confirmed
        /\ Len(workOrders[k].gatheringSteps) = 2
        /\ \A g \in 1..Len(workOrders[k].gatheringSteps) :
              workOrders[k].gatheringSteps[g].confirmed
        /\ Len(workOrders[k].cuttingSteps) = 2
        /\ \A c \in 1..Len(workOrders[k].cuttingSteps) :
              workOrders[k].cuttingSteps[c].confirmed

-----------------------------------------------------------------------------
(* C2: over any sequence of work-order operations a work order's phase     *)
(* only ever changes from a phase to its immediate successor in            *)
(* gathering -> cutting -> returning -> completed.                         *)

C2_PhaseOnlyToSuccessor ==
    [][\A id \in WorkOrderIds :
          Survives(id) =>
              \/ Post(id).phase = Pre(id).phase
              \/ Post(id).phase = NextPhaseOf(Pre(id).phase)]_vars

-----------------------------------------------------------------------------
(* C3: once a work order's status is cancelled or completed, no            *)
(* confirmGatheringStep, confirmCuttingStep, confirmReturn, advancePhase   *)
(* or cancelWorkOrder changes its phase.                                   *)

C3_TerminalPhaseFrozen ==
    [][(\/ confirmGatheringStep
        \/ confirmCuttingStep
        \/ confirmReturn
        \/ advancePhase
        \/ cancelWorkOrder)
          => \A id \in WorkOrderIds :
                 (Terminal(Pre(id)) /\ Survives(id))
                     => Post(id).phase = Pre(id).phase]_vars

-----------------------------------------------------------------------------
(* C4: cancelWorkOrder sets status = cancelled and stamps completedAt; it  *)
(* leaves the phase, the steps and their confirmations as they were, and   *)
(* the live stock pool exactly as it was, cuts already applied included.   *)

C4_CancelKeepsStock ==
    [][cancelWorkOrder =>
          \E id \in WorkOrderIds :
              /\ OnlyChanges(id)
              /\ Post(id) = [Pre(id) EXCEPT !.status = "cancelled",
                                                !.completedAt = Now]
              /\ rails' = rails]_vars

\* a work order cancelled in the cutting phase, one of its two rail groups
\* confirmed and the rail of that group gone from the live pool
C4_Witness ==
    \E k \in 1..Len(workOrders) :
        /\ workOrders[k].status = "cancelled"
        /\ workOrders[k].completedAt = Now
        /\ workOrders[k].phase = "cutting"
        /\ \E c \in 1..Len(workOrders[k].cuttingSteps) :
              /\ workOrders[k].cuttingSteps[c].confirmed
              /\ workOrders[k].cuttingSteps[c].sourceRailId = RailA1000.id
        /\ \E c \in 1..Len(workOrders[k].cuttingSteps) :
              ~workOrders[k].cuttingSteps[c].confirmed
        /\ RailA1000.id \notin IdsOf(rails)

-----------------------------------------------------------------------------
(* C21: once createWorkOrder has built a work order, no work-order         *)
(* operation (confirmGatheringStep, confirmCuttingStep, confirmReturn,     *)
(* advancePhase, cancelWorkOrder, completeWorkOrder, also through the      *)
(* rail-group confirmation) and no edit of the live pool (addRail,         *)
(* removeRail, cutRail) changes its materialPlanSnapshot, nor the number,  *)
(* the order or any field of its gathering and cutting steps other than    *)
(* confirmed and confirmedAt.                                              *)

C21_SameSteps(before, after) ==
    /\ Len(after) = Len(before)
    /\ \A k \in 1..Len(before) :
          [after[k] EXCEPT !.confirmed = before[k].confirmed,
                           !.confirmedAt = before[k].confirmedAt] = before[k]

C21_SnapshotImmutable ==
    [][\A k \in 1..Len(workOrders) :
          /\ Len(workOrders') >= k
          /\ workOrders'[k].id = workOrders[k].id
          /\ workOrders'[k].materialPlanSnapshot = workOrders[k].materialPlanSnapshot
          /\ C21_SameSteps(workOrders[k].gatheringSteps, workOrders'[k].gatheringSteps)
          /\ C21_SameSteps(workOrders[k].cuttingSteps, workOrders'[k].cuttingSteps)]_vars

\* a cancelled work order in the cutting phase with a cut confirmed, whose
\* snapshot still plans a cut of the rail of 1000 although that rail was cut
\* by hand and is in the pool only as a remainder of 700
C21_Witness ==
    \E k \in 1..Len(workOrders) :
        LET wo == workOrders[k]
        IN  /\ wo.phase = "cutting"
            /\ wo.status = "cancelled"
            /\ \E c \in 1..Len(wo.cuttingSteps) : wo.cuttingSteps[c].confirmed
            /\ \E m \in 1..Len(wo.materialPlanSnapshot.suggestions) :
                  /\ wo.materialPlanSnapshot.suggestions[m].sourceRail.id = RailA1000.id
                  /\ wo.materialPlanSnapshot.suggestions[m].sourceRail.length = 1000
            /\ RailA1000.id \notin IdsOf(rails)
            /\ \E r \in 1..Len(rails) :
                  /\ rails[r].originalRailId = RailA1000.id
                  /\ rails[r].length = 700

-----------------------------------------------------------------------------
(* C22: a unit piece longer than the largest standard length (6000), which *)
(* no rail of the stock can hold, raises no error: the iteration that      *)
(* meets it is taken, appends a suggestion for that piece on a synthesized *)
(* rail of length 6000 - so the piece is longer than its source rail - and *)
(* increments newRailsNeeded by one; the returned plan holds a suggestion  *)
(* for every such piece.                                                   *)

C22_TooLong(piece) == piece.length > 6000

C22_OnRailOf6000(s) ==
    /\ s.sourceRail.length = 6000
    /\ ~s.sourceRail.isRemainder
    /\ s.sourceRail.id \notin IdsOf(inventory)
    /\ s.piece.length > s.sourceRail.length

C22_State ==
    /\ GmpRunning =>
          \A k \in 1..Len(gmp.suggestions) :
              C22_TooLong(gmp.suggestions[k].piece) => C22_OnRailOf6000(gmp.suggestions[k])
    /\ (GmpAtPiece /\ C22_TooLong(gmp.expandedPieces[gmp.i])) =>
          ENABLED GmpAllocateNewRail
    /\ gmp.pc = "done" =>
          \A i \in 1..Len(gmp.expandedPieces) :
              C22_TooLong(gmp.expandedPieces[i]) =>
                  \E k \in 1..Len(gmp.suggestions) :
                      gmp.suggestions[k].piece = gmp.expandedPieces[i]

C22_Step ==
    (/\ GmpAtPiece
     /\ C22_TooLong(gmp.expandedPieces[gmp.i])
     /\ gmp' # gmp)
        => LET s == gmp'.suggestions[Len(gmp'.suggestions)]
           IN  /\ gmp'.pc = "loop"
               /\ gmp'.suggestions = Append(gmp.suggestions, s)
               /\ s.piece = gmp.expandedPieces[gmp.i]
               /\ C22_OnRailOf6000(s)
               /\ gmp'.newRailsNeeded = gmp.newRailsNeeded + 1

C22_OverlongPieceOnRailOf6000 == []C22_State /\ [][C22_Step]_vars

\* a returned plan for a stock that holds rails, with a piece of 6500 on a
\* synthesized rail of 6000
C22_Witness ==
    /\ gmp.pc = "done"
    /\ inventory # <<>>
    /\ gmp.newRailsNeeded >= 1
    /\ \E k \in 1..Len(gmp.suggestions) :
          /\ gmp.suggestions[k].piece.length = 6500
          /\ gmp.suggestions[k].sourceRail.length = 6000
          /\ OnNewRail(gmp.suggestions[k])

-----------------------------------------------------------------------------
(* C23: when the source rail of a rail group is not in the live pool (a    *)
(* rail the engine synthesized), the rail-group confirmation links the     *)
(* group to a live rail by type, length and non-remainder: the live rail   *)
(* it consumes has the group's width and thickness, has the group's source *)
(* length, and is not a remainder.                                         *)

C23_LinkedByTypeLengthNonRemainder ==
    [][handleConfirmRailGroup =>
          \A id \in WorkOrderIds :
              Post(id) # Pre(id) =>
                  LET first == Pre(id).cuttingSteps[C18_First(Pre(id))]
                  IN  first.sourceRailId \notin IdsOf(rails) =>
                          \A k \in 1..Len(rails) :
                              rails[k].id \notin IdsOf(rails') =>
                                  /\ rails[k].width = first.railType.width
                                  /\ rails[k].thickness = first.railType.thickness
                                  /\ rails[k].length = first.sourceLength
                                  /\ ~rails[k].isRemainder]_vars

-----------------------------------------------------------------------------
(* utils/ledApi: the indicator lights of the two remainder boxes.          *)
(* ledRequests is the sequence of POST requests sent to the LED service,   *)
(* ledCall the last call made to the module with the box it resolved.      *)

MaxLedRequests == 3

\* null of getLedIdForLength: the length qualifies for neither box
NoLed == -1

\* the small box takes the lengths up to 300 inclusive
getLedIdForLengthInclusive(lengthMm) ==
    IF lengthMm >= 100 /\ lengthMm <= 300 THEN 0
    ELSE IF lengthMm > 300 THEN 1
    ELSE NoLed

getLedIdForLength(lengthMm) ==
    IF lengthMm >= 100 /\ lengthMm < 300 THEN 0
    ELSE IF lengthMm >= 300 THEN 1
    ELSE NoLed

\* setLedState: one POST of {id, state}; a failed request is logged and
\* swallowed, so the caller continues either way
setLedState(requests, ledId, state) ==
    Append(requests, [ledId |-> ledId, state |-> state])

\* lengths handed to the LED module: both sides of each box boundary
LedLengths == {-5, 0, 99, 100, 299, 300, 301, 1000}

turnOnLedForLengthOf(lengthMm) ==
    LET ledId == getLedIdForLength(lengthMm)
    IN  /\ Len(ledRequests) < MaxLedRequests
        /\ ledCall' = [op |-> "turnOnLedForLength", lengthMm |-> lengthMm,
                       ledId |-> ledId]
        /\ ledRequests' = IF ledId # NoLed
                          THEN setLedState(ledRequests, ledId, TRUE)
                          ELSE ledRequests
        /\ UNCHANGED <<engineVars, orderVars, cutResult, plansVars, nextId>>

turnOnLedForLength == \E lengthMm \in LedLengths : turnOnLedForLengthOf(lengthMm)

turnOffLedForLengthOf(lengthMm) ==
    LET ledId == getLedIdForLength(lengthMm)
    IN  /\ Len(ledRequests) < MaxLedRequests
        /\ ledCall' = [op |-> "turnOffLedForLength", lengthMm |-> lengthMm,
                       ledId |-> ledId]
        /\ ledRequests' = IF ledId # NoLed
                          THEN setLedState(ledRequests, ledId, FALSE)
                          ELSE ledRequests
        /\ UNCHANGED <<engineVars, orderVars, cutResult, plansVars, nextId>>

turnOffLedForLength == \E lengthMm \in LedLengths : turnOffLedForLengthOf(lengthMm)

\* the two requests of Promise.all, in the order they are issued
turnOffAllLeds ==
    /\ Len(ledRequests) + 2 <= MaxLedRequests
    /\ ledCall' = [op |-> "turnOffAllLeds", sentFrom |-> Len(ledRequests) + 1]
    /\ ledRequests' = setLedState(setLedState(ledRequests, 1, FALSE), 2, FALSE)
    /\ UNCHANGED <<engineVars, orderVars, cutResult, plansVars, nextId>>

LedNext == turnOnLedForLength \/ turnOffLedForLength \/ turnOffAllLeds

LedSpec == Init /\ [][LedNext]_vars

-----------------------------------------------------------------------------
\* C24: getLedIdForLength assigns a box by length alone: none below 100,
\* box 0 from 100 up to but not including 300, box 1 from 300 on (99 -> none,
\* 100 -> 0, 299 -> 0, 300 -> 1); turnOnLedForLength and turnOffLedForLength
\* send exactly one request, to that box, when a box is assigned and no
\* request otherwise.

C24_Box(lengthMm) ==
    IF lengthMm < 100 THEN NoLed ELSE IF lengthMm < 300 THEN 0 ELSE 1

C24_Sent(lengthMm, state) ==
    IF C24_Box(lengthMm) = NoLed
    THEN ledRequests' = ledRequests
    ELSE ledRequests' = Append(ledRequests,
                               [ledId |-> C24_Box(lengthMm), state |-> state])

C24_State ==
    /\ getLedIdForLength(99) = NoLed
    /\ getLedIdForLength(100) = 0
    /\ getLedIdForLength(299) = 0
    /\ getLedIdForLength(300) = 1
    /\ ledCall.op \in {"turnOnLedForLength", "turnOffLedForLength"}
          => ledCall.ledId = C24_Box(ledCall.lengthMm)

C24_Step ==
    \A lengthMm \in LedLengths :
        /\ turnOnLedForLengthOf(lengthMm) => C24_Sent(lengthMm, TRUE)
        /\ turnOffLedForLengthOf(lengthMm) => C24_Sent(lengthMm, FALSE)

C24_BoxByLength == []C24_State /\ [][C24_Step]_vars

\* 299 lit box 0, 300 lit box 1, and the call for 99 sent nothing
C24_Witness ==
    /\ ledCall.op = "turnOffLedForLength"
    /\ ledCall.lengthMm = 99
    /\ ledCall.ledId = NoLed
    /\ ledRequests = <<[ledId |-> 0, state |-> TRUE],
                       [ledId |-> 1, state |-> TRUE]>>

-----------------------------------------------------------------------------
\* C29: once turnOffAllLeds has completed, an OFF request has gone to every
\* LED that turnOnLedForLength can switch on: to box 0 and to box 1, the
\* ids getLedIdForLength returns.

C29_AllBoxesOff ==
    ledCall.op = "turnOffAllLeds" =>
        \A lengthMm \in LedLengths :
            getLedIdForLength(lengthMm) # NoLed =>
                \E k \in ledCall.sentFrom..Len(ledRequests) :
                    ledRequests[k] = [ledId |-> getLedIdForLength(lengthMm),
                                      state |-> FALSE]

-----------------------------------------------------------------------------
\* C30: in every state a work order reaches through createWorkOrder, the
\* confirm operations, advancePhase, cancelWorkOrder, completeWorkOrder and
\* updateWorkOrderStatus, its phase is 'completed' exactly when its status
\* is 'completed'.

C30_PhaseCompletedIffStatusCompleted ==
    \A k \in 1..Len(workOrders) :
        (workOrders[k].phase = "completed") <=> (workOrders[k].status = "completed")

-----------------------------------------------------------------------------
\* C27: the step confirmations are not ordered. In every reachable state,
\* whatever the phase of the work order and whatever is confirmed already,
\* confirmGatheringStep and confirmCuttingStep on any of its steps and
\* confirmReturn leave that step (the return) confirmed, without touching the
\* phase or the confirmations of the other steps; advancePhase alone is
\* guarded, and changes nothing while canAdvancePhase is false.

C27_Confirmed(steps, stepId) ==
    \A k \in 1..Len(steps) : steps[k].id = stepId => steps[k].confirmed

C27_OthersKept(before, after, stepId) ==
    /\ Len(after) = Len(before)
    /\ \A k \in 1..Len(before) :
          before[k].id # stepId => after[k] = before[k]

C27_ConfirmationNotOrdered ==
    \A k \in 1..Len(workOrders) :
        LET wo == workOrders[k]
        IN  /\ \A stepId \in GatheringStepIds(wo) :
                  LET after == WithGatheringStep(wo, stepId)
                  IN  /\ C27_Confirmed(after.gatheringSteps, stepId)
                      /\ C27_OthersKept(wo.gatheringSteps, after.gatheringSteps, stepId)
                      /\ after.phase = wo.phase
                      /\ after.cuttingSteps = wo.cuttingSteps
                      /\ after.returnConfirmation = wo.returnConfirmation
            /\ \A stepId \in CuttingStepIds(wo) :
                  LET after == WithCuttingStep(wo, stepId, generateId(nextId + 1))
                  IN  /\ C27_Confirmed(after.cuttingSteps, stepId)
                      /\ C27_OthersKept(wo.cuttingSteps, after.cuttingSteps, stepId)
                      /\ after.phase = wo.phase
                      /\ after.gatheringSteps = wo.gatheringSteps
                      /\ after.returnConfirmation = wo.returnConfirmation
            /\ LET after == WithReturn(wo)
               IN  /\ after.returnConfirmation.confirmed
                   /\ after.phase = wo.phase
                   /\ after.gatheringSteps = wo.gatheringSteps
                   /\ after.cuttingSteps = wo.cuttingSteps
            /\ ~canAdvancePhase(wo) => Advanced(wo) = wo

\* in phase 'gathering': a cutting step and the return are confirmed while a
\* gathering step is still open
C27_Witness ==
    \E k \in 1..Len(workOrders) :
        LET wo == workOrders[k]
        IN  /\ wo.phase = "gathering"
            /\ \E g \in 1..Len(wo.gatheringSteps) : ~wo.gatheringSteps[g].confirmed
            /\ \E c \in 1..Len(wo.cuttingSteps) :
                  /\ c > 1
                  /\ wo.cuttingSteps[c].confirmed
                  /\ ~wo.cuttingSteps[1].confirmed
            /\ wo.returnConfirmation.confirmed

-----------------------------------------------------------------------------
\* C26: generateMaterialPlan is deterministic. A second run on the same plan
\* and the same stock pool in the same order, made with other generated
\* identities, yields a suggestion sequence that agrees with the first
\* position by position on the source rail (its id for a stock rail, its
\* length and remainder flag for a synthesized one), the piece's length, type
\* and purpose, remainderLength, waste and isOptimal, and the two runs agree
\* on totalWaste, usedRemainders and newRailsNeeded.

C26_Source(rail) ==
    IF rail.id[1] = "gen"
    THEN [synthesized |-> TRUE, length |-> rail.length,
          width |-> rail.width, thickness |-> rail.thickness,
          isRemainder |-> rail.isRemainder]
    ELSE [synthesized |-> FALSE, rail |-> rail]

C26_Allocation(suggestion) ==
    [source |-> C26_Source(suggestion.sourceRail),
     length |-> suggestion.piece.length,
     railType |-> suggestion.piece.railType,
     purpose |-> suggestion.piece.purpose,
     remainderLength |-> suggestion.remainderLength,
     waste |-> suggestion.waste,
     isOptimal |-> suggestion.isOptimal]

C26_Agree(first, second) ==
    /\ Len(second.suggestions) = Len(first.suggestions)
    /\ \A k \in 1..Len(first.suggestions) :
          C26_Allocation(second.suggestions[k]) = C26_Allocation(first.suggestions[k])
    /\ second.totalWaste = first.totalWaste
    /\ second.usedRemainders = first.usedRemainders
    /\ second.newRailsNeeded = first.newRailsNeeded

\* the second run starts where the identities of the first one end
C26_SecondRun == generateMaterialPlan(plan, inventory, gmp.ids)

-----------------------------------------------------------------------------
(* components/WorkOrderExecution.tsx: the operator's view of one work       *)
(* order. It offers the first unconfirmed step of the current phase, and    *)
(* the button that advances the phase once nothing is left to confirm.      *)

HasOpenStep(steps) == \E k \in 1..Len(steps) : ~steps[k].confirmed

\* steps.find(step => !step.confirmed)
CurrentStep(steps) ==
    steps[CHOOSE k \in 1..Len(steps) :
              /\ ~steps[k].confirmed
              /\ \A j \in 1..(k - 1) : steps[j].confirmed]

handleConfirmGathering ==
    \E id \in WorkOrderIds :
        LET wo == WorkOrderOf(id)
        IN  /\ wo.phase = "gathering"
            /\ HasOpenStep(wo.gatheringSteps)
            /\ confirmGatheringStepOf(id, CurrentStep(wo.gatheringSteps).id)

\* the rail is cut in the inventory (or a missing stock rail is added), then
\* the step is confirmed
handleConfirmCutting ==
    \E id \in WorkOrderIds :
        LET wo == WorkOrderOf(id)
        IN  /\ wo.phase = "cutting"
            /\ HasOpenStep(wo.cuttingSteps)
            /\ LET step == CurrentStep(wo.cuttingSteps)
                   railInInventory ==
                       FindIndex(rails, LAMBDA r : r.id = step.sourceRailId)
                   remainder == CutRemainder(rails, step.sourceRailId, step.cutLength,
                                             generateId(nextId + 1))
                   added == IF railInInventory # 0
                            THEN IF remainder # Null THEN 1 ELSE 0
                            ELSE IF ~IdIncludes(step.sourceRailId, "new-") THEN 1 ELSE 0
               IN  /\ rails' =
                         IF railInInventory # 0
                         THEN PoolAfterCut(rails, step.sourceRailId, step.cutLength,
                                           generateId(nextId + 1))
                         ELSE IF ~IdIncludes(step.sourceRailId, "new-")
                              THEN WithRail(rails,
                                            [id |-> Undefined,
                                             length |-> step.sourceLength,
                                             width |-> step.railType.width,
                                             thickness |-> step.railType.thickness,
                                             isRemainder |-> FALSE,
                                             originalRailId |-> Undefined],
                                            generateId(nextId + 1))
                              ELSE rails
                   /\ workOrders' =
                         MapWorkOrder(id, LAMBDA w :
                             WithCuttingStep(w, step.id, generateId(nextId + added + 1)))
                   /\ nextId' = nextId + added + 1
            /\ UNCHANGED <<engineVars, cutResult, plansVars, ledVars>>

handleConfirmReturn ==
    /\ \E id \in WorkOrderIds :
          /\ WorkOrderOf(id).phase = "returning"
          /\ ~WorkOrderOf(id).returnConfirmation.confirmed
          /\ workOrders' = MapWorkOrder(id, LAMBDA wo : WithReturn(wo))
    /\ UNCHANGED <<rails, nextId, engineVars, cutResult, plansVars, ledVars>>

\* the button is rendered when the phase has nothing left to confirm
handleAdvancePhase ==
    /\ \E id \in WorkOrderIds :
          /\ canAdvancePhase(WorkOrderOf(id))
          /\ workOrders' = MapWorkOrder(id, LAMBDA wo : Advanced(wo))
    /\ UNCHANGED <<rails, nextId, engineVars, cutResult, plansVars, ledVars>>

OperatorStep ==
    \/ handleConfirmGathering
    \/ handleConfirmCutting
    \/ handleConfirmReturn
    \/ handleAdvancePhase

OperatorNext == createWorkOrder \/ Tick \/ OperatorStep

\* the operator keeps going: a button that stays on the screen is pressed
OperatorSpec == Init /\ [][OperatorNext]_vars /\ WF_vars(OperatorStep)

-----------------------------------------------------------------------------
\* C28: a work order whose operator keeps confirming the first unconfirmed
\* step of the current phase (or the return) and advances the phase whenever
\* nothing of it is left to confirm eventually has phase 'completed' with
\* status 'completed'; it starts in 'gathering' and its phase moves only
\* under canAdvancePhase and only to the next phase, so it gets there by
\* exactly three advancePhase transitions.

C28_Completed ==
    /\ workOrders # <<>>
    /\ \A k \in 1..Len(workOrders) :
          workOrders[k].phase = "completed" /\ workOrders[k].status = "completed"

C28_Step ==
    /\ Len(workOrders') >= Len(workOrders)
    /\ \A k \in 1..Len(workOrders) :
          workOrders'[k].phase # workOrders[k].phase =>
              /\ canAdvancePhase(workOrders[k])
              /\ workOrders'[k].phase = NextPhaseOf(workOrders[k].phase)
    /\ \A k \in (Len(workOrders) + 1)..Len(workOrders') :
          workOrders'[k].phase = "gathering"

C28_OperatorCompletes ==
    /\ (workOrders # <<>>) ~> C28_Completed
    /\ [][C28_Step]_vars

\* completed by the operator, with every step of the plan confirmed
C28_Witness ==
    /\ C28_Completed
    /\ \E k \in 1..Len(workOrders) :
          /\ Len(workOrders[k].cuttingSteps) = 2
          /\ \A c \in 1..Len(workOrders[k].cuttingSteps) :
                workOrders[k].cuttingSteps[c].confirmed
          /\ \A g \in 1..Len(workOrders[k].gatheringSteps) :
                workOrders[k].gatheringSteps[g].confirmed
          /\ workOrders[k].returnConfirmation.confirmed

-----------------------------------------------------------------------------
(* context/PlansContext.tsx and components/PlanManager: the plan library.   *)
(* A text typed into a form is the sequence of its characters. A number of  *)
(* a plan is a JavaScript number, which may be NaN; a property that is      *)
(* undefined and a property that is absent are not told apart.              *)

MaxPlans == 2

Number(n) == <<"number", n>>
NaN == <<"NaN", 0>>
JsonNull == <<"null", 0>>

DigitChars == <<"0", "1", "2", "3", "4", "5", "6", "7", "8", "9">>

IsDigit(c) == \E d \in 1..10 : DigitChars[d] = c

DigitOf(c) == (CHOOSE d \in 1..10 : DigitChars[d] = c) - 1

RECURSIVE SkipWhitespace(_)
SkipWhitespace(text) ==
    IF text # <<>> /\ Head(text) = " " THEN SkipWhitespace(Tail(text)) ELSE text

RECURSIVE Reversed(_)
Reversed(text) ==
    IF text = <<>> THEN <<>> ELSE Append(Reversed(Tail(text)), Head(text))

\* String.prototype.trim
Trim(text) == Reversed(SkipWhitespace(Reversed(SkipWhitespace(text))))

RECURSIVE ParseDigits(_, _)
ParseDigits(text, value) ==
    IF text # <<>> /\ IsDigit(Head(text))
    THEN ParseDigits(Tail(text), value * 10 + DigitOf(Head(text)))
    ELSE value

\* parseInt(text) of a decimal text: leading blanks, a sign, then the longest
\* run of digits; NaN when there is no digit to read
parseInt(text) ==
    LET s == SkipWhitespace(text)
        signed == s # <<>> /\ Head(s) \in {"-", "+"}
        body == IF signed THEN Tail(s) ELSE s
    IN  IF body = <<>> \/ ~IsDigit(Head(body))
        THEN NaN
        ELSE IF signed /\ Head(s) = "-"
             THEN Number(0 - ParseDigits(body, 0))
             ELSE Number(ParseDigits(body, 0))

\* what is typed into the forms
PlanNameInputs == {<<>>, <<" ">>, <<"B", "o", "x">>}
PieceLengthInputs == {<<>>, <<"2", "5", "0">>, <<".", "5">>}
PieceQuantityInputs == {1, 2}
PiecePurposeInputs == {<<>>, <<"l", "i", "d">>}

PlanIds == {plans[k].id : k \in 1..Len(plans)}

\* addPlan
WithPlan(library, newPlan, n) ==
    Append(library, [newPlan EXCEPT !.id = generateId(n + 1),
                                    !.createdAt = Now,
                                    !.updatedAt = Now])

\* addPieceToPlan
WithPieceInPlan(library, planId, piece, n) ==
    [k \in 1..Len(library) |->
        IF library[k].id = planId
        THEN [library[k] EXCEPT
                 !.requiredPieces = Append(@, [piece EXCEPT !.id = generateId(n + 1)]),
                 !.updatedAt = Now]
        ELSE library[k]]

\* JSON.stringify of a number: NaN is written as null
JsonOfNumber(x) == IF x = NaN THEN JsonNull ELSE x

\* JSON.stringify of a Date: its ISO string
JsonOfDate(date) == <<"string", date>>

JsonOfPiece(piece) ==
    [id |-> piece.id,
     length |-> JsonOfNumber(piece.length),
     quantity |-> JsonOfNumber(piece.quantity),
     purpose |-> piece.purpose,
     railType |-> piece.railType]

\* downloadJson, then readJsonFile: the value JSON.parse builds from the text
\* JSON.stringify wrote
JsonOfPlan(p) ==
    [id |-> p.id,
     name |-> p.name,
     description |-> p.description,
     requiredPieces |-> [k \in 1..Len(p.requiredPieces) |-> JsonOfPiece(p.requiredPieces[k])],
     createdAt |-> JsonOfDate(p.createdAt),
     updatedAt |-> JsonOfDate(p.updatedAt)]

\* importPlan
WithImportedPlan(library, p, n) ==
    Append(library,
           [p EXCEPT
               !.id = generateId(n + 1),
               !.createdAt = Now,
               !.updatedAt = Now,
               !.requiredPieces =
                   [k \in 1..Len(p.requiredPieces) |->
                       [p.requiredPieces[k] EXCEPT !.id = generateId(n + 1 + k)]]])

\* handleImportPlan once the file is read: a plan without a name or without
\* requiredPieces is refused
PlansAfterImport(library, p, n) ==
    IF p.name # <<>> THEN WithImportedPlan(library, p, n) ELSE library

handleCreatePlan ==
    /\ Len(plans) < MaxPlans
    /\ \E newPlanName \in PlanNameInputs :
          IF Trim(newPlanName) # <<>>
          THEN /\ plans' = WithPlan(plans,
                                    [id |-> Undefined,
                                     name |-> Trim(newPlanName),
                                     description |-> Undefined,
                                     requiredPieces |-> <<>>,
                                     createdAt |-> NoDate,
                                     updatedAt |-> NoDate],
                                    nextId)
               /\ nextId' = nextId + 1
          ELSE UNCHANGED <<plans, nextId>>
    /\ UNCHANGED <<planFile, engineVars, orderVars, cutResult, ledVars>>

handleAddPiece ==
    /\ \E planId \in PlanIds, pieceLength \in PieceLengthInputs,
          pieceQuantity \in PieceQuantityInputs, piecePurpose \in PiecePurposeInputs :
          LET currentPlan == plans[CHOOSE k \in 1..Len(plans) : plans[k].id = planId]
          IN  /\ Len(currentPlan.requiredPieces) < MaxPieces
              /\ IF pieceLength # <<>> /\ piecePurpose # <<>>
                 THEN /\ plans' = WithPieceInPlan(plans, planId,
                                                  [id |-> Undefined,
                                                   length |-> parseInt(pieceLength),
                                                   quantity |-> Number(pieceQuantity),
                                                   purpose |-> piecePurpose,
                                                   railType |-> RailTypeA],
                                                  nextId)
                      /\ nextId' = nextId + 1
                 ELSE UNCHANGED <<plans, nextId>>
    /\ UNCHANGED <<planFile, engineVars, orderVars, cutResult, ledVars>>

handleExportPlan ==
    /\ \E k \in 1..Len(plans) :
          planFile' = [isFile |-> TRUE, content |-> JsonOfPlan(plans[k])]
    /\ UNCHANGED <<plans, nextId, engineVars, orderVars, cutResult, ledVars>>

handleImportPlan ==
    /\ planFile.isFile
    /\ Len(plans) < MaxPlans
    /\ plans' = PlansAfterImport(plans, planFile.content, nextId)
    /\ nextId' = nextId + (Len(plans') - Len(plans))
                        * (1 + Len(planFile.content.requiredPieces))
    /\ UNCHANGED <<planFile, engineVars, orderVars, cutResult, ledVars>>

PlansNext == handleCreatePlan \/ handleAddPiece \/ handleExportPlan \/ handleImportPlan

PlansSpec == Init /\ [][PlansNext]_vars

-----------------------------------------------------------------------------
\* C25: exporting a plan and importing the file again adds one plan whose
\* requiredPieces are the same sequence by length, quantity, purpose and
\* railType, under a new plan id and new piece ids; the plans that were
\* there are unchanged.

C25_SamePiece(a, b) ==
    /\ a.length = b.length
    /\ a.quantity = b.quantity
    /\ a.purpose = b.purpose
    /\ a.railType = b.railType

C25_RoundTrip ==
    \A k \in 1..Len(plans) :
        LET exported == plans[k]
            after == PlansAfterImport(plans, JsonOfPlan(exported), nextId)
            imported == after[Len(after)]
            known == PlanIds \cup
                     UNION {{plans[j].requiredPieces[i].id :
                                i \in 1..Len(plans[j].requiredPieces)} :
                            j \in 1..Len(plans)}
        IN  /\ Len(after) = Len(plans) + 1
            /\ SubSeq(after, 1, Len(plans)) = plans
            /\ Len(imported.requiredPieces) = Len(exported.requiredPieces)
            /\ \A i \in 1..Len(exported.requiredPieces) :
                  /\ C25_SamePiece(imported.requiredPieces[i], exported.requiredPieces[i])
                  /\ imported.requiredPieces[i].id \notin known
            /\ imported.id \notin known

-----------------------------------------------------------------------------
(* ExecutionSpec: one work order under the operations of its execution:     *)
(* the three confirmations, advancePhase and cancelWorkOrder, each on any   *)
(* step and in any order.                                                   *)

ExecutionNext ==
    \/ Tick
    \/ createWorkOrder
    \/ confirmGatheringStep
    \/ confirmCuttingStep
    \/ confirmReturn
    \/ advancePhase
    \/ cancelWorkOrder

ExecutionSpec == Init /\ [][ExecutionNext]_vars

-----------------------------------------------------------------------------
\* C31: under any sequence of confirmGatheringStep, confirmCuttingStep,
\* confirmReturn, advancePhase and cancelWorkOrder a confirmation is never
\* reset, and the phase certifies the earlier work: past 'gathering' every
\* gathering step is confirmed, past 'cutting' every cutting step is
\* confirmed, and in 'completed' the return is confirmed.

C31_AllConfirmed(steps) == \A k \in 1..Len(steps) : steps[k].confirmed

C31_State ==
    \A k \in 1..Len(workOrders) :
        LET wo == workOrders[k]
        IN  /\ wo.phase \in {"cutting", "returning", "completed"}
                  => C31_AllConfirmed(wo.gatheringSteps)
            /\ wo.phase \in {"returning", "completed"}
                  => C31_AllConfirmed(wo.cuttingSteps)
            /\ wo.phase = "completed" => wo.returnConfirmation.confirmed

C31_KeptConfirmed(before, after) ==
    /\ Len(after) = Len(before)
    /\ \A k \in 1..Len(before) : before[k].confirmed => after[k].confirmed

C31_Step ==
    /\ Len(workOrders') >= Len(workOrders)
    /\ \A k \in 1..Len(workOrders) :
          /\ C31_KeptConfirmed(workOrders[k].gatheringSteps, workOrders'[k].gatheringSteps)
          /\ C31_KeptConfirmed(workOrders[k].cuttingSteps, workOrders'[k].cuttingSteps)
          /\ workOrders[k].returnConfirmation.confirmed
                => workOrders'[k].returnConfirmation.confirmed

C31_PhaseCertifiesWork == []C31_State /\ [][C31_Step]_vars

\* a cancelled work order that was taken to 'completed' with two cuts
C31_Witness ==
    \E k \in 1..Len(workOrders) :
        /\ workOrders[k].phase = "completed"
        /\ workOrders[k].status = "cancelled"
        /\ Len(workOrders[k].cuttingSteps) = 2
        /\ C31_AllConfirmed(workOrders[k].cuttingSteps)
        /\ C31_AllConfirmed(workOrders[k].gatheringSteps)

-----------------------------------------------------------------------------
\* C32: in the per-suggestion execution, confirming in suggestion order the
\* cutting steps of a work order whose source rails were all in the live
\* pool at creation never adds material: each confirmed step lowers the
\* total length of the rails in the live pool by exactly its cutLength, also
\* when several steps cut from the same source rail.

C32_TotalLength(pool) == SumSeq([k \in 1..Len(pool) |-> pool[k].length])

\* every source rail of the snapshot is a rail of the pool it was made from
C32_AllFromStock(wo) ==
    \A k \in 1..Len(wo.cuttingSteps) : wo.cuttingSteps[k].sourceRailId[1] = "rail"

C32_EachCutLowersThePool ==
    [][\A k \in 1..Len(workOrders) :
          LET wo == workOrders[k]
          IN  (/\ wo.phase = "cutting"
               /\ HasOpenStep(wo.cuttingSteps)
               /\ C32_AllFromStock(wo)
               /\ handleConfirmCutting)
              => C32_TotalLength(rails') =
                    C32_TotalLength(rails) - CurrentStep(wo.cuttingSteps).cutLength]_vars

-----------------------------------------------------------------------------
(* SharedPoolSpec: work orders created one after the other from one live  *)
(* pool and executed by rail groups, in any interleaving.                  *)

RailA1000Twin ==
    MakeRail([length |-> 1000, isRemainder |-> FALSE, railType |-> RailTypeA], 2)

SharedPools == {<<RailA1000>>, <<RailA1000, RailA300>>, <<RailA1000, RailA1000Twin>>}

SharedInit ==
    /\ plan = EmptyPlan
    /\ inventory = <<>>
    /\ gmp = GmpIdle
    /\ workOrders = <<>>
    /\ rails \in SharedPools
    /\ cutResult = Null
    /\ plans = <<>>
    /\ planFile = NoFile
    /\ ledCall = NoCall
    /\ ledRequests = <<>>
    /\ nextId = 0

SharedPoolNext ==
    \/ createNextWorkOrder
    \/ handleConfirmGathering
    \/ handleAdvancePhase
    \/ handleConfirmRailGroup

SharedPoolSpec == SharedInit /\ [][SharedPoolNext]_vars

-----------------------------------------------------------------------------
\* C33: when two work orders were created from the same live pool and both
\* snapshots reference the same stock rail, executing both consumes that
\* rail once: confirming the second work order's group for the rail the
\* first one has consumed removes no other rail from the live pool and adds
\* none.

\* the group work order k is offered next is planned on a stock rail that is
\* gone from the pool and that another work order has cut
C33_OnConsumedRail(k) ==
    LET wo == workOrders[k]
        groups == railGroups(wo)
        open == {g \in 1..Len(groups) : ~groups[g].allConfirmed}
    IN  /\ wo.phase = "cutting"
        /\ open # {}
        /\ LET group == groups[CHOOSE g \in open : \A h \in open : g <= h]
           IN  /\ group.sourceRailId[1] = "rail"
               /\ group.sourceRailId \notin IdsOfPool(rails)
               /\ \E j \in 1..Len(workOrders) :
                     /\ j # k
                     /\ \E c \in 1..Len(workOrders[j].cuttingSteps) :
                           /\ workOrders[j].cuttingSteps[c].sourceRailId = group.sourceRailId
                           /\ workOrders[j].cuttingSteps[c].confirmed

C33_SharedRailConsumedOnce ==
    [][\A k \in 1..Len(workOrders) :
          (/\ C33_OnConsumedRail(k)
           /\ handleConfirmRailGroup
           /\ workOrders'[k] # workOrders[k])
          => rails' = rails]_vars

-----------------------------------------------------------------------------
\* C34: for every source rail id of a material plan the suggestions that
\* reference it form a chain in suggestion order: the first one's
\* sourceRail.length is the full length of the rail (of the stock rail, or
\* of the standard rail synthesized for its piece), each later one's
\* sourceRail.length is the remainderLength of the one before, and only the
\* last has nonzero waste; hence, for every rail group of the work order,
\* first sourceLength - sum of cutLength = remainderLength + wasteLength of
\* the group's last cutting step.

C34_Earlier(suggestions, k) ==
    {j \in 1..(k - 1) : suggestions[j].sourceRail.id = suggestions[k].sourceRail.id}

C34_FullLength(suggestion) ==
    LET inStock == FindIndex(inventory, LAMBDA r : r.id = suggestion.sourceRail.id)
    IN  IF inStock # 0
        THEN inventory[inStock].length
        ELSE findSmallestSufficientStandardRail(suggestion.piece.length)

C34_Chain(suggestions) ==
    \A k \in 1..Len(suggestions) :
        LET earlier == C34_Earlier(suggestions, k)
        IN  IF earlier = {}
            THEN suggestions[k].sourceRail.length = C34_FullLength(suggestions[k])
            ELSE LET before == CHOOSE j \in earlier : \A i \in earlier : i <= j
                 IN  /\ suggestions[k].sourceRail.length = suggestions[before].remainderLength
                     /\ suggestions[before].waste = 0

C34_GroupBalance(wo) ==
    LET groups == railGroups(wo)
    IN  \A g \in 1..Len(groups) :
            LET last == groups[g].cuts[Len(groups[g].cuts)]
            IN  groups[g].sourceLength - GroupCutLength(groups[g])
                    = last.remainderLength + last.wasteLength

\* the material plan as the call returns it, and the rail groups of the work
\* order built from it
C34_State ==
    /\ (gmp.pc = "done" /\ workOrders = <<>>) => C34_Chain(gmp.suggestions)
    /\ \A k \in 1..Len(workOrders) : C34_GroupBalance(workOrders[k])

C34_SuggestionsChainPerRail == []C34_State

\* a work order with a stock rail cut twice and a synthesized rail cut twice
C34_Witness ==
    /\ workOrders # <<>>
    /\ LET s == workOrders[1].materialPlanSnapshot.suggestions
       IN  /\ \E k \in 1..Len(s) :
                 /\ s[k].sourceRail.id[1] = "rail"
                 /\ C34_Earlier(s, k) # {}
           /\ \E k \in 1..Len(s) :
                 /\ s[k].sourceRail.id[1] = "gen"
                 /\ C34_Earlier(s, k) # {}

-----------------------------------------------------------------------------
\* C35: for every rail group of a work order whose source rail is in the
\* live pool, rail-group confirmation inserts a remainder rail into the live
\* pool exactly when the snapshot's last cutting step for that rail records
\* a nonzero remainderLength, and the inserted rail has that length.

C35_Inserted == {k \in 1..Len(rails') : rails'[k].id \notin IdsOfPool(rails)}

C35_AsPlanned(group) ==
    LET last == group.cuts[Len(group.cuts)]
    IN  IF last.remainderLength # 0
        THEN /\ Cardinality(C35_Inserted) = 1
             /\ \A k \in C35_Inserted :
                   rails'[k].isRemainder /\ rails'[k].length = last.remainderLength
        ELSE C35_Inserted = {}

C35_RemainderAsPlanned ==
    [][\A k \in 1..Len(workOrders) :
          LET wo == workOrders[k]
              groups == railGroups(wo)
              open == {g \in 1..Len(groups) : ~groups[g].allConfirmed}
          IN  (/\ wo.phase = "cutting"
               /\ open # {}
               /\ handleConfirmRailGroup
               /\ workOrders'[k] # wo)
              => LET group == groups[CHOOSE g \in open : \A h \in open : g <= h]
                 IN  group.sourceRailId \in IdsOfPool(rails) => C35_AsPlanned(group)]_vars

-----------------------------------------------------------------------------
(* C36: under ExecutionSpec, where confirmCuttingStep is the only writer of
   the log of executed cuts, the log of every work order has as many entries
   as the work order has confirmed cutting steps, and no cutting step has
   more than one entry; confirming a confirmed cutting step again adds
   nothing. *)

C36_Confirmed(wo) == {k \in 1..Len(wo.cuttingSteps) : wo.cuttingSteps[k].confirmed}

C36_EntriesOf(wo, k) ==
    {e \in 1..Len(wo.executedCuts) :
        /\ wo.executedCuts[e].suggestionIndex = wo.cuttingSteps[k].suggestionIndex
        /\ wo.executedCuts[e].pieceId = wo.cuttingSteps[k].pieceId}

C36_OneEntryPerConfirmedCut ==
    \A w \in 1..Len(workOrders) :
        LET wo == workOrders[w]
        IN  /\ Len(wo.executedCuts) = Cardinality(C36_Confirmed(wo))
            /\ \A k \in 1..Len(wo.cuttingSteps) :
                  Cardinality(C36_EntriesOf(wo, k)) <= 1

-----------------------------------------------------------------------------
(* C37: confirmGatheringStep with a stepId that is the id of no gathering
   step of the addressed work order leaves the work order as it is: status,
   startedAt and every step keep their values. *)

C37_UnknownStepChangesNothing ==
    \A w \in 1..Len(workOrders) :
        LET wo == workOrders[w]
        IN  MissingId \notin GatheringStepIds(wo)
                => WithGatheringStep(wo, MissingId) = wo

-----------------------------------------------------------------------------
(* ConfirmationSpec: createWorkOrder, the confirm operations and advancePhase,
   without the operations that set the status directly *)

ConfirmationNext ==
    \/ Tick
    \/ createWorkOrder
    \/ confirmGatheringStep
    \/ confirmCuttingStep
    \/ confirmReturn
    \/ advancePhase

ConfirmationSpec == Init /\ [][ConfirmationNext]_vars

(* C38: under ConfirmationSpec, a work order whose phase is past 'gathering'
   (cutting, returning or completed) is not a draft and has its startedAt
   set, whatever the plan, the plan with no required pieces included. *)

C38_PastGatheringIsStarted ==
    \A w \in 1..Len(workOrders) :
        LET wo == workOrders[w]
        IN  wo.phase \in {"cutting", "returning", "completed"}
                => wo.status # "draft" /\ wo.startedAt # NoDate

-----------------------------------------------------------------------------
(* C39: newRailsNeeded is the number of distinct source rail identities among
   the suggestions that are not identities of the caller's stock pool; the
   work order created from the plan has that many gathering steps whose rail
   is not in the stock pool, also when later pieces are cut from the leftover
   of a synthesized rail. *)

C39_SourceIds(suggestions) ==
    {suggestions[k].sourceRail.id : k \in 1..Len(suggestions)}

C39_NotInStock(wo) ==
    {k \in 1..Len(wo.gatheringSteps) :
        wo.gatheringSteps[k].sourceRailId \notin IdsOfPool(inventory)}

C39_State ==
    /\ (gmp.pc = "done" /\ workOrders = <<>>)
          => gmp.newRailsNeeded =
                Cardinality(C39_SourceIds(gmp.suggestions) \ IdsOfPool(inventory))
    /\ \A w \in 1..Len(workOrders) :
          workOrders[w].materialPlanSnapshot.newRailsNeeded =
              Cardinality(C39_NotInStock(workOrders[w]))

C39_NewRailsGatheredOnce == []C39_State

\* two rails to procure, one of them cut twice, next to a rail of the stock
C39_Witness ==
    /\ workOrders # <<>>
    /\ LET wo == workOrders[1]
       IN  /\ wo.materialPlanSnapshot.newRailsNeeded = 2
           /\ Cardinality(C39_NotInStock(wo)) = 2
           /\ Len(wo.gatheringSteps) = 3
           /\ \E j, k \in 1..Len(wo.cuttingSteps) :
                 /\ j < k
                 /\ wo.cuttingSteps[j].sourceRailId = wo.cuttingSteps[k].sourceRailId
                 /\ wo.cuttingSteps[j].sourceRailId \notin IdsOfPool(inventory)

-----------------------------------------------------------------------------
(* C40: a gathering step has isFromNewStock = TRUE exactly when its source
   rail was synthesized by the engine, i.e. is no rail of the stock pool the
   work order was created from; the step of a rail that is in the inventory
   has isFromNewStock = FALSE. *)

C40_NewStockIffSynthesized ==
    \A w \in 1..Len(workOrders) :
        \A k \in 1..Len(workOrders[w].gatheringSteps) :
            LET step == workOrders[w].gatheringSteps[k]
            IN  step.isFromNewStock <=> step.sourceRailId \notin IdsOfPool(inventory)

=============================================================================
